---- MODULE Spec2Model ----
(***************************************************************************)
(* Model of the Linker / Unifier core of the legislative tracker:         *)
(*   src/src/pipeline/linker.py   Linker (cross-registry linking)         *)
(*   src/src/pipeline/unifier.py  Unifier.merge_stages (timeline merge)   *)
(*   src/src/models/project.py    Project.determine_phase                 *)
(*   src/src/pipeline/sync.py     Pipeline.run (owner of the Linker)      *)
(*                                                                         *)
(* Six specifications share the variables:                                 *)
(*   Spec       the Pipeline's Linker: runs, link_project calls and the    *)
(*              registry's answers (results, failures) one call at a time  *)
(*   SpecMerge  merge_stages applied to bounded stage lists                *)
(*   SpecPhase  update_phase applied to bounded Projects                   *)
(*   SpecUnify  unify applied to bounded LinkedProjects, one lookup a step  *)
(*   SpecRun    Pipeline.run: scrape, link, unify, save, with the tables    *)
(*   SpecConvert  convert_sejm_stages applied to bounded processes          *)
(*                                                                         *)
(* Conventions.  Text that the code inspects character by character (the  *)
(* sejm_url, the RM number) is a sequence of one-character strings.        *)
(* Python's None is NoneStr for such text, "None" for a print number,      *)
(* NoneInt for a term and NoneProc for a dict; a dict key that is absent   *)
(* is Missing.                                                             *)
(***************************************************************************)
EXTENDS Integers, Sequences, FiniteSets, TLC

VARIABLES
    \* ---- Linker / Pipeline (Spec)
    sejm_cache,   \* Linker._sejm_cache: rm_number -> process details
    runPc,        \* Pipeline.run: "idle" | "linking"
    pc,           \* link_project: "idle" | "search" | "fetch" | "done" | "raised"
    rcl,          \* the rcl_project of the current / last link_project call
    rm_number,    \* the RM number extracted for it
    pass,         \* which find_sejm_by_title call: "verify" | "fuzzy"
    termIdx,      \* index into sejm_terms of the term being searched
    results,      \* the list the last search_processes call returned
    outcomes,     \* per candidate of results examined so far: "err" | "ok"
    result,       \* the LinkedProject returned by the last call
    nSearch,      \* search_processes calls issued by the current call
    nFetch,       \* get_process calls issued by the current call
    \* ---- Unifier.merge_stages (SpecMerge)
    mpc,          \* "off" | "ready" | "done"
    rcl_stages,   \* argument rcl_stages
    sejm_stages,  \* argument sejm_stages
    merged,       \* what merge_stages returned or that it raised
    \* ---- Project.update_phase (SpecPhase)
    ppc,          \* "off" | "ready" | "updated"
    project,      \* the Project
    \* ---- Unifier.unify (SpecUnify)
    upc,          \* "off" | "ready" | "lookup" | "done" | "again" | "raised"
    linked,       \* argument linked: the LinkedProject
    uproject,     \* the Project unify builds and returns
    ulog,         \* the auxiliary lookups made so far, each with its outcome
    \* ---- Pipeline.run with the database (SpecRun)
    rpc,          \* "off" | "idle" | "scrape" | "link" | "unify" | "save" |
                  \* "returned" | "raised"
    link_to_sejm, \* argument link_to_sejm of the current run
    rcl_projects, \* the records the scrape returned
    linked_list,  \* run's local "linked": the LinkedProjects so far
    projects,     \* run's local "projects": the Projects so far
    saved,        \* iterations of the save loop completed
    calls,        \* link_project / unify / upsert_project calls of this run
    sync_log,     \* table sync_log: the status of each run's entry
    db,           \* tables projects, rcl_stages, project_votings,
                  \* voting_by_party, sejm_stages
    persisted,    \* per rcl_id, the Projects the save loop wrote, oldest first
                  \* (NoResult for an iteration that a raising call cut short)
    \* ---- Unifier.convert_sejm_stages (SpecConvert)
    cpc,          \* "off" | "ready" | "done"
    cprocess,     \* argument sejm_process
    cstages       \* the list of Stages returned

linkVars  == <<sejm_cache, runPc, pc, rcl, rm_number, pass, termIdx,
               results, outcomes, result, nSearch, nFetch>>
mergeVars == <<mpc, rcl_stages, sejm_stages, merged>>
phaseVars == <<ppc, project>>
unifyVars == <<upc, linked, uproject, ulog>>
runVars   == <<rpc, link_to_sejm, rcl_projects, linked_list, projects, saved,
               calls, sync_log, db, persisted>>
convertVars == <<cpc, cprocess, cstages>>
vars      == <<linkVars, mergeVars, phaseVars, unifyVars, runVars, convertVars>>

(***************************************************************************)
(* Bounds                                                                  *)
(***************************************************************************)
\* candidates one search_processes call returns (the code asks for limit=10)
MaxResults == 2
\* stages in one stage list
MaxStages == 3

(***************************************************************************)
(* Python values                                                           *)
(***************************************************************************)
NoneStr  == <<"<None>">>
Missing  == <<"<missing>">>
EmptyStr == <<>>
NoneInt  == 0
NoneProc == [none |-> TRUE]

Truthy(s) == s # NoneStr /\ s # EmptyStr

\* dict.get(key, default) on a field value
Get(v, default) == IF v = Missing THEN default ELSE v

(***************************************************************************)
(* extract_rcl_num_from_sejm_url: re.search(r'Id=(RM-[\d-]+)', sejm_url)   *)
(***************************************************************************)
Digits == {"0", "1", "2", "3", "4", "5", "6", "7", "8", "9"}

IsKeyChar(c) == c \in Digits \cup {"-"}

\* the literal "Id=RM-" starts at position i and one [\d-] follows it
MatchesAt(u, i) ==
    /\ i + 6 <= Len(u)
    /\ SubSeq(u, i, i + 5) = <<"I", "d", "=", "R", "M", "-">>
    /\ IsKeyChar(u[i + 6])

\* the greedy [\d-]+ run that starts at position j ends at RunEnd(u, j)
RECURSIVE RunEnd(_, _)
RunEnd(u, j) ==
    IF j + 1 <= Len(u) /\ IsKeyChar(u[j + 1]) THEN RunEnd(u, j + 1) ELSE j

\* an earlier-bug variant: the tail [\d-]+ may be empty
extract_rcl_num_EmptyTail(sejm_url) ==
    LET starts == {i \in 1..Len(sejm_url) :
                     /\ i + 5 <= Len(sejm_url)
                     /\ SubSeq(sejm_url, i, i + 5) = <<"I", "d", "=", "R", "M", "-">>}
    IN IF starts = {} THEN NoneStr
       ELSE LET i == CHOOSE s \in starts : \A t \in starts : s <= t
            IN SubSeq(sejm_url, i + 3, RunEnd(sejm_url, i + 5))

extract_rcl_num_from_sejm_url(sejm_url) ==
    LET starts == {i \in 1..Len(sejm_url) : MatchesAt(sejm_url, i)}
    IN IF starts = {} THEN NoneStr
       ELSE LET i == CHOOSE s \in starts : \A t \in starts : s <= t
            IN SubSeq(sejm_url, i + 3, RunEnd(sejm_url, i + 6))

\* Linker.extract_rm_number
extract_rm_number(rcl_project) ==
    LET sejm_url == Get(rcl_project.sejm_url, NoneStr)
    IN IF ~Truthy(sejm_url) THEN NoneStr
       ELSE extract_rcl_num_from_sejm_url(sejm_url)

(***************************************************************************)
(* The title and the search query of find_sejm_by_title.  A title is a     *)
(* sequence of words; the prefix test is made word by word.                *)
(***************************************************************************)
NoneTitle == <<"<None>">>

Lower(w) ==
    CASE w = "Projekt" -> "projekt"
      [] w = "Ustawy"  -> "ustawy"
      [] w = "Ustawa"  -> "ustawa"
      [] OTHER         -> w

TitlePrefixes ==
    << <<"Projekt", "ustawy", "o", "zmianie", "ustawy">>,
       <<"Projekt", "Ustawy", "o", "zmianie", "ustawy">>,
       <<"Ustawa", "o", "zmianie", "ustawy">>,
       <<"Projekt", "ustawy", "o">>,
       <<"Projekt", "ustawy">>,
       <<"Ustawa", "o">> >>

StartsWith(title, prefix) ==
    /\ Len(title) >= Len(prefix)
    /\ \A i \in 1..Len(prefix) : Lower(title[i]) = Lower(prefix[i])

\* search_title: the title without the first prefix of the list it starts with
SearchTitle(title) ==
    LET hits == {k \in 1..Len(TitlePrefixes) : StartsWith(title, TitlePrefixes[k])}
    IN IF hits = {} THEN title
       ELSE LET k == CHOOSE h \in hits : \A g \in hits : h <= g
            IN SubSeq(title, Len(TitlePrefixes[k]) + 1, Len(title))

\* words = search_title.split()[:3]
QueryWords(title) ==
    LET st == SearchTitle(title)
    IN SubSeq(st, 1, IF Len(st) < 3 THEN Len(st) ELSE 3)

(***************************************************************************)
(* Government records handed to link_project                               *)
(***************************************************************************)
RM1 == <<"R", "M", "-", "1", "-", "2">>
RM2 == <<"R", "M", "-", "7">>

URL_K1    == <<"h", "?", "I", "d", "=", "R", "M", "-", "1", "-", "2">>
URL_K2    == <<"I", "d", "=", "R", "M", "-", "7", "&", "x", "=", "1">>
URL_NoKey == <<"h", "?", "I", "d", "=", "R", "M", "-">>

SejmUrls == {Missing, NoneStr, EmptyStr, URL_NoKey, URL_K1, URL_K2}

Title_Plain      == <<"Projekt", "ustawy", "o", "podatku", "od", "gier", "losowych">>
Title_PrefixOnly == <<"Projekt", "Ustawy">>

Titles == {Missing, NoneTitle, EmptyStr, Title_PrefixOnly, Title_Plain}

RclProjects == [sejm_url : SejmUrls, title : Titles]

(***************************************************************************)
(* The parliamentary registry: per term, the processes get_process serves  *)
(***************************************************************************)
\* Linker.SEJM_TERMS
\* SEJM_TERMS -- and a variant that lists the older term first
sejm_terms_OldestFirst == <<9, 10>>

sejm_terms == <<10, 9>>

Details(number, rclNum, term) ==
    [number |-> number, rclNum |-> rclNum, term |-> term]

Registry(term) ==
    IF term = 10
    THEN {Details("101", RM1, 10), Details("102", RM2, 10), Details("103", NoneStr, 10)}
    ELSE {Details("901", RM1, 9), Details("902", RM2, 9), Details("903", NoneStr, 9)}

\* a process summary of a search result; NoNumber has no "number" key
Summary(number) == [number |-> number]
NoNumber == [number |-> "<missing>"]

Summaries(term) == {Summary(d.number) : d \in Registry(term)} \cup {NoNumber}

RECURSIVE SeqsUpTo(_, _)
SeqsUpTo(S, n) ==
    IF n = 0 THEN {<<>>}
    ELSE LET shorter == SeqsUpTo(S, n - 1)
         IN shorter \cup {Append(s, x) : s \in {t \in shorter : Len(t) = n - 1}, x \in S}

ResultLists(term) == SeqsUpTo(Summaries(term), MaxResults)

\* api.get_process(number) when it answers
GetProcess(term, number) == CHOOSE d \in Registry(term) : d.number = number

(***************************************************************************)
(* LinkedProject                                                           *)
(***************************************************************************)
LinkedProject(rm, rcl_project, sejm_process, sejm_print, sejm_term, link_method) ==
    [rm_number |-> rm, rcl_project |-> rcl_project, sejm_process |-> sejm_process,
     sejm_print |-> sejm_print, sejm_term |-> sejm_term, link_method |-> link_method]

NoResult == [none |-> TRUE]
EmptyCache == <<>>

\* Linker.find_sejm_by_rm_number (defined by the Linker, called by nobody)
find_sejm_by_rm_number(rm) ==
    IF rm \in DOMAIN sejm_cache THEN sejm_cache[rm] ELSE NoneProc

(***************************************************************************)
(* Linker.link_project, one registry call per step                         *)
(***************************************************************************)
Term == sejm_terms[termIdx]

\* the candidate `proc` of "for proc in results" being examined
Candidate == results[Len(outcomes) + 1]

\* linker.py:117  details.get("rclNum") == rm_number; a variant that accepts
\* any candidate carrying some RM number
KeyMatchesAnyKey(details, rm) == Truthy(details.rclNum)

KeyMatches(details, rm) == details.rclNum = rm

\* a variant that does not keep the extracted RM number
NotLinked_KeyDropped(rm, rcl_project, method) ==
    LinkedProject(EmptyStr, rcl_project, NoneProc, "None", NoneInt, method)

NotLinked(rm, rcl_project, method) ==
    LinkedProject(rm, rcl_project, NoneProc, "None", NoneInt, method)

\* a variant in which the verifying call looks at the newest term only
EndOfTerm_NewestTermOnly(p, ti) ==
    IF p = "verify"
    THEN pc' = "search" /\ pass' = "fuzzy" /\ termIdx' = 1 /\ result' = result
    ELSE IF ti < Len(sejm_terms)
    THEN pc' = "search" /\ pass' = p /\ termIdx' = ti + 1 /\ result' = result
    ELSE /\ pc' = "done" /\ pass' = p /\ termIdx' = ti
         /\ result' = NotLinked(rm_number, rcl, "not_found")

\* "for term in self.sejm_terms" moves on from the term at index ti of the
\* find_sejm_by_title call p; after the last term the call returns
\* (None, None): link_project then makes the title-only call, or gives up
EndOfTerm(p, ti) ==
    IF ti < Len(sejm_terms)
    THEN pc' = "search" /\ pass' = p /\ termIdx' = ti + 1 /\ result' = result
    ELSE IF p = "verify"
    THEN pc' = "search" /\ pass' = "fuzzy" /\ termIdx' = 1 /\ result' = result
    ELSE /\ pc' = "done" /\ pass' = p /\ termIdx' = ti
         /\ result' = NotLinked(rm_number, rcl, "not_found")

\* "for proc in results" moves on after the candidate just examined
NextCandidate ==
    IF Len(outcomes) + 1 < Len(results)
    THEN pc' = "fetch" /\ pass' = pass /\ termIdx' = termIdx /\ result' = result
    ELSE EndOfTerm(pass, termIdx)

\* the locals of find_sejm_by_title after a candidate was examined with the
\* outcomes log: the list is kept while its loop goes on, and the log until
\* the next search
Locals(log) ==
    /\ results' = IF pc' = "fetch" THEN results ELSE <<>>
    /\ outcomes' = IF pc' = "search" THEN <<>> ELSE log

\* Pipeline.run up to step 2: start_sync, scrape, then link_projects begins
PipelineRun ==
    /\ runPc = "idle"
    /\ runPc' = "linking"
    /\ UNCHANGED <<sejm_cache, pc, rcl, rm_number, pass, termIdx, results,
                   outcomes, result, nSearch, nFetch>>
    /\ UNCHANGED <<mergeVars, phaseVars, unifyVars, runVars, convertVars>>

\* link_project(r) up to its first registry call (or its return)
LinkProject(r) ==
    /\ runPc = "linking"
    /\ pc \in {"idle", "done"}
    /\ rcl' = r
    /\ rm_number' = extract_rm_number(r)
    /\ nSearch' = 0 /\ nFetch' = 0
    /\ results' = <<>> /\ outcomes' = <<>>
    /\ LET rm    == extract_rm_number(r)
           title == Get(r.title, EmptyStr)
       IN IF ~Truthy(rm)
          THEN /\ pc' = "done" /\ pass' = "verify" /\ termIdx' = 1
               /\ result' = NotLinked(EmptyStr, r, "none")
          ELSE IF title = NoneTitle
          THEN \* title.lower(): AttributeError
               pc' = "raised" /\ pass' = "verify" /\ termIdx' = 1 /\ result' = NoResult
          ELSE IF QueryWords(title) = <<>>
          THEN \* both find_sejm_by_title calls return (None, None) at once
               /\ pc' = "done" /\ pass' = "fuzzy" /\ termIdx' = 1
               /\ result' = NotLinked(rm, r, "not_found")
          ELSE pc' = "search" /\ pass' = "verify" /\ termIdx' = 1 /\ result' = NoResult
    /\ UNCHANGED <<sejm_cache, runPc>>
    /\ UNCHANGED <<mergeVars, phaseVars, unifyVars, runVars, convertVars>>

\* api.search_processes raises: logged, "continue"
SearchRaises ==
    /\ pc = "search"
    /\ nSearch' = nSearch + 1
    /\ results' = <<>> /\ outcomes' = <<>>
    /\ EndOfTerm(pass, termIdx)
    /\ UNCHANGED <<sejm_cache, runPc, rcl, rm_number, nFetch>>
    /\ UNCHANGED <<mergeVars, phaseVars, unifyVars, runVars, convertVars>>

\* api.search_processes returns the list rs
SearchReturns(rs) ==
    /\ pc = "search"
    /\ nSearch' = nSearch + 1
    /\ results' = rs /\ outcomes' = <<>>
    /\ IF rs = <<>>
       THEN EndOfTerm(pass, termIdx)
       ELSE pc' = "fetch" /\ pass' = pass /\ termIdx' = termIdx /\ result' = result
    /\ UNCHANGED <<sejm_cache, runPc, rcl, rm_number, nFetch>>
    /\ UNCHANGED <<mergeVars, phaseVars, unifyVars, runVars, convertVars>>

\* proc["number"] raises KeyError inside the try; the handler's own
\* print(f"... {proc['number']}") raises it again, out of link_project
CandidateWithoutNumber ==
    /\ pc = "fetch"
    /\ Candidate = NoNumber
    /\ pc' = "raised"
    /\ UNCHANGED <<sejm_cache, runPc, rcl, rm_number, pass, termIdx,
                   results, outcomes, result, nSearch, nFetch>>
    /\ UNCHANGED <<mergeVars, phaseVars, unifyVars, runVars, convertVars>>

\* a variant without the except clause of linker.py:124
FetchRaisesUncaught ==
    /\ pc = "fetch"
    /\ Candidate # NoNumber
    /\ nFetch' = nFetch + 1
    /\ outcomes' = Append(outcomes, "err")
    /\ pc' = "raised"
    /\ UNCHANGED <<sejm_cache, runPc, rcl, rm_number, pass, termIdx,
                   results, result, nSearch>>
    /\ UNCHANGED <<mergeVars, phaseVars, unifyVars, runVars, convertVars>>

\* api.get_process raises: logged, "continue"
FetchRaises ==
    /\ pc = "fetch"
    /\ Candidate # NoNumber
    /\ nFetch' = nFetch + 1
    /\ NextCandidate
    /\ Locals(Append(outcomes, "err"))
    /\ UNCHANGED <<sejm_cache, runPc, rcl, rm_number, nSearch>>
    /\ UNCHANGED <<mergeVars, phaseVars, unifyVars, runVars, convertVars>>

\* a variant that caches the unverified candidate of the title-only call too
FetchReturns_FuzzyCached ==
    /\ pc = "fetch"
    /\ Candidate # NoNumber
    /\ nFetch' = nFetch + 1
    /\ LET details == GetProcess(Term, Candidate.number)
       IN IF pass = "verify" /\ ~KeyMatches(details, rm_number)
          THEN NextCandidate /\ sejm_cache' = sejm_cache
          ELSE /\ sejm_cache' = (rm_number :> details) @@ sejm_cache
               /\ pc' = "done" /\ pass' = pass /\ termIdx' = termIdx
               /\ result' = LinkedProject(rm_number, rcl, details, details.number, Term,
                                          IF pass = "verify" THEN "rm_number"
                                          ELSE "title_fuzzy")
    /\ Locals(Append(outcomes, "ok"))
    /\ UNCHANGED <<runPc, rcl, rm_number, nSearch>>
    /\ UNCHANGED <<mergeVars, phaseVars, unifyVars, runVars, convertVars>>

\* api.get_process returns the candidate's details
FetchReturns ==
    /\ pc = "fetch"
    /\ Candidate # NoNumber
    /\ nFetch' = nFetch + 1
    /\ LET details == GetProcess(Term, Candidate.number)
       IN IF pass = "verify"
          THEN IF KeyMatches(details, rm_number)
               THEN /\ sejm_cache' = (rm_number :> details) @@ sejm_cache
                    /\ pc' = "done" /\ pass' = pass /\ termIdx' = termIdx
                    /\ result' = LinkedProject(rm_number, rcl, details,
                                               details.number, Term, "rm_number")
               ELSE NextCandidate /\ sejm_cache' = sejm_cache
          ELSE /\ sejm_cache' = sejm_cache
               /\ pc' = "done" /\ pass' = pass /\ termIdx' = termIdx
               /\ result' = LinkedProject(rm_number, rcl, details,
                                          details.number, Term, "title_fuzzy")
    /\ Locals(Append(outcomes, "ok"))
    /\ UNCHANGED <<runPc, rcl, rm_number, nSearch>>
    /\ UNCHANGED <<mergeVars, phaseVars, unifyVars, runVars, convertVars>>

IdleCall ==
    /\ pc' = "idle" /\ rcl' = NoResult /\ rm_number' = NoneStr
    /\ pass' = "verify" /\ termIdx' = 1
    /\ results' = <<>> /\ outcomes' = <<>> /\ result' = NoResult
    /\ nSearch' = 0 /\ nFetch' = 0

\* link_projects returns its list; the run goes on without the Linker
LinkProjectsReturns ==
    /\ runPc = "linking"
    /\ pc \in {"idle", "done"}
    /\ runPc' = "idle"
    /\ IdleCall
    /\ UNCHANGED sejm_cache
    /\ UNCHANGED <<mergeVars, phaseVars, unifyVars, runVars, convertVars>>

\* an exception out of link_project leaves link_projects and run (sync.py:310)
RunFails ==
    /\ runPc = "linking"
    /\ pc = "raised"
    /\ runPc' = "idle"
    /\ IdleCall
    /\ UNCHANGED sejm_cache
    /\ UNCHANGED <<mergeVars, phaseVars, unifyVars, runVars, convertVars>>

MergeOff == mpc = "off" /\ rcl_stages = <<>> /\ sejm_stages = <<>> /\ merged = NoResult
PhaseOff == ppc = "off" /\ project = NoResult
UnifyOff == upc = "off" /\ linked = NoResult /\ uproject = NoResult /\ ulog = <<>>
NoCalls  == [link |-> 0, unify |-> 0, upsert |-> 0]
EmptyDb  == [projects |-> <<>>, rcl_stages |-> <<>>, project_votings |-> <<>>,
             voting_by_party |-> <<>>, sejm_stages |-> <<>>]
RunOff   ==
    /\ rpc = "off" /\ link_to_sejm = TRUE
    /\ rcl_projects = <<>> /\ linked_list = <<>> /\ projects = <<>>
    /\ saved = 0 /\ calls = NoCalls
    /\ sync_log = <<>> /\ db = EmptyDb /\ persisted = <<>>

ConvertOff == cpc = "off" /\ cprocess = NoResult /\ cstages = <<>>

\* Pipeline.__init__: a new Linker, nothing cached, no run under way
LinkInit ==
    /\ sejm_cache = EmptyCache
    /\ runPc = "idle"
    /\ pc = "idle" /\ rcl = NoResult /\ rm_number = NoneStr
    /\ pass = "verify" /\ termIdx = 1
    /\ results = <<>> /\ outcomes = <<>> /\ result = NoResult
    /\ nSearch = 0 /\ nFetch = 0

Init == LinkInit /\ MergeOff /\ PhaseOff /\ UnifyOff /\ RunOff /\ ConvertOff

Next ==
    \/ PipelineRun
    \/ \E r \in RclProjects : LinkProject(r)
    \/ SearchRaises
    \/ \E rs \in ResultLists(Term) : SearchReturns(rs)
    \/ CandidateWithoutNumber
    \/ FetchRaises
    \/ FetchReturns
    \/ LinkProjectsReturns
    \/ RunFails

Spec == Init /\ [][Next]_vars

(***************************************************************************)
(* Stage dates.  The text of a date is a sequence of tokens: a run of       *)
(* digits (its width and value), a separator character, or other text.     *)
(***************************************************************************)
Num(w, v) == [k |-> "num", w |-> w, v |-> v]
Sep(c)    == [k |-> c, w |-> 1, v |-> 0]
Txt(w)    == [k |-> "txt", w |-> w, v |-> 0]

NoneDate == <<[k |-> "<None>", w |-> 0, v |-> 0]>>

\* "01-03-2024" and the like
DMY(d, m, y) == <<Num(2, d), Sep("-"), Num(2, m), Sep("-"), Num(4, y)>>
\* "1-3-2024"
DMYShort(d, m, y) == <<Num(1, d), Sep("-"), Num(1, m), Sep("-"), Num(4, y)>>
\* "2024-02-10"
YMD(y, m, d) == <<Num(4, y), Sep("-"), Num(2, m), Sep("-"), Num(2, d)>>
\* "2024-03-20T09:00:00"
Timestamp(y, m, d, h) ==
    YMD(y, m, d) \o <<Sep("T"), Num(2, h), Sep(":"), Num(2, 0), Sep(":"), Num(2, 0)>>
\* "2024-04-01T10:00:00Z"
TimestampZ(y, m, d, h) == Timestamp(y, m, d, h) \o <<Sep("Z")>>

DateTexts ==
    { NoneDate,
      DMY(1, 3, 2024), DMY(15, 3, 2024), DMY(1, 2, 2024),
      DMYShort(1, 3, 2024),
      YMD(2024, 2, 10),
      Timestamp(2024, 3, 20, 9),
      TimestampZ(2024, 4, 1, 10),
      <<Txt(4)>> }

\* len(stage.date)
RECURSIVE StrLen(_)
StrLen(s) == IF s = <<>> THEN 0 ELSE Head(s).w + StrLen(Tail(s))

\* "c" in stage.date
HasChar(s, c) == \E i \in 1..Len(s) : s[i].k = c

\* a datetime: naive or aware (with tzinfo), and its instant as a number
DateTime(aware, y, m, d, h) ==
    [aware |-> aware, t |-> ((y * 100 + m) * 100 + d) * 100 + h]

ParseError == [aware |-> FALSE, t |-> -1]

IsNum(tok, widths) == tok.k = "num" /\ tok.w \in widths
ValidDay(m, d) == m \in 1..12 /\ d \in 1..31

\* datetime.fromisoformat(text.replace("Z", "+00:00"))
FromIsoFormat(s) ==
    LET zoned == Len(s) = 12 /\ s[12].k = "Z"
    IN IF /\ Len(s) \in {11, 12}
          /\ (Len(s) = 12 => zoned)
          /\ IsNum(s[1], {4}) /\ s[2].k = "-" /\ IsNum(s[3], {2}) /\ s[4].k = "-"
          /\ IsNum(s[5], {2}) /\ s[6].k = "T" /\ IsNum(s[7], {2}) /\ s[8].k = ":"
          /\ IsNum(s[9], {2}) /\ s[10].k = ":" /\ IsNum(s[11], {2})
          /\ ValidDay(s[3].v, s[5].v) /\ s[7].v \in 0..23
       THEN DateTime(zoned, s[1].v, s[3].v, s[5].v, s[7].v)
       ELSE ParseError

\* datetime.strptime(text, "%Y-%m-%d")
StrptimeYMD(s) ==
    IF /\ Len(s) = 5
       /\ IsNum(s[1], {4}) /\ s[2].k = "-" /\ IsNum(s[3], {1, 2}) /\ s[4].k = "-"
       /\ IsNum(s[5], {1, 2})
       /\ ValidDay(s[3].v, s[5].v)
    THEN DateTime(FALSE, s[1].v, s[3].v, s[5].v, 0)
    ELSE ParseError

\* datetime.strptime(text, "%d-%m-%Y")
StrptimeDMY(s) ==
    IF /\ Len(s) = 5
       /\ IsNum(s[1], {1, 2}) /\ s[2].k = "-" /\ IsNum(s[3], {1, 2}) /\ s[4].k = "-"
       /\ IsNum(s[5], {4})
       /\ ValidDay(s[3].v, s[1].v)
    THEN DateTime(FALSE, s[5].v, s[3].v, s[1].v, 0)
    ELSE ParseError

(***************************************************************************)
(* Stage and Unifier.merge_stages                                          *)
(***************************************************************************)
\* Voting as a Stage holds it, and None in its place
Voting(yes, no, res) == [yes |-> yes, no |-> no, result |-> res]
NoneVoting == [yes |-> 0, no |-> 0, result |-> "<None>"]

\* Stage(date=..., source=..., stage_name=...), the other fields at their
\* defaults
Stage(date, source, stage_name) ==
    [date |-> date, source |-> source, stage_name |-> stage_name,
     stage_type |-> NoneStr, committee_code |-> NoneStr, voting |-> NoneVoting]

\* datetime(2000, 1, 1) for "rcl", datetime(2100, 1, 1) for "sejm"
Sentinel(source) ==
    IF source = "rcl" THEN DateTime(FALSE, 2000, 1, 1, 0)
    ELSE DateTime(FALSE, 2100, 1, 1, 0)

\* merge_stages.sort_key: the branch is chosen by "T", "-" and the length,
\* a parse that raises falls through to the sentinel
sort_key(stage) ==
    LET d == stage.date
        parsed == IF d = NoneDate \/ d = <<>> THEN ParseError
                  ELSE IF HasChar(d, "T") THEN FromIsoFormat(d)
                  ELSE IF HasChar(d, "-") /\ StrLen(d) = 10 THEN StrptimeYMD(d)
                  ELSE IF HasChar(d, "-") THEN StrptimeDMY(d)
                  ELSE ParseError
    IN IF parsed # ParseError THEN parsed ELSE Sentinel(stage.source)

\* a variant of the sort that puts x in front of the elements of equal key
RECURSIVE InsertByKey_BeforeEqual(_, _)
InsertByKey_BeforeEqual(sorted, x) ==
    IF sorted = <<>> THEN <<x>>
    ELSE IF sort_key(x).t <= sort_key(Head(sorted)).t THEN <<x>> \o sorted
    ELSE <<Head(sorted)>> \o InsertByKey_BeforeEqual(Tail(sorted), x)

\* sorted(): x goes behind every element whose key is not greater (stable)
RECURSIVE InsertByKey(_, _)
InsertByKey(sorted, x) ==
    IF sorted = <<>> THEN <<x>>
    ELSE IF sort_key(x).t < sort_key(Head(sorted)).t THEN <<x>> \o sorted
    ELSE <<Head(sorted)>> \o InsertByKey(Tail(sorted), x)

RECURSIVE SortedByKey(_)
SortedByKey(stages) ==
    IF stages = <<>> THEN <<>>
    ELSE InsertByKey(SortedByKey(SubSeq(stages, 1, Len(stages) - 1)),
                     stages[Len(stages)])

\* comparing a naive with an aware datetime raises TypeError; sorted() of a
\* list that holds both kinds of key compares such a pair
MixedKeys(stages) ==
    \E i, j \in 1..Len(stages) : sort_key(stages[i]).aware /\ ~sort_key(stages[j]).aware

Returned(v) == [raised |-> FALSE, value |-> v]
Raised == [raised |-> TRUE, value |-> <<>>]

merge_stages(rcl_s, sejm_s) ==
    LET all_stages == rcl_s \o sejm_s
    IN IF MixedKeys(all_stages) THEN Raised
       ELSE Returned(SortedByKey(all_stages))

NumStr == <<"1", "2", "3", "4", "5", "6">>

\* the stage lists of the two sources with the dates ds
RclStages(ds)  == [i \in 1..Len(ds) |-> Stage(ds[i], "rcl", <<"Etap", NumStr[i]>>)]
SejmStages(ds) == [i \in 1..Len(ds) |-> Stage(ds[i], "sejm", <<"Czytanie", NumStr[i]>>)]

MergeStages ==
    /\ mpc = "ready"
    /\ merged' = merge_stages(rcl_stages, sejm_stages)
    /\ mpc' = "done"
    /\ UNCHANGED <<rcl_stages, sejm_stages>>
    /\ UNCHANGED <<linkVars, phaseVars, unifyVars, runVars, convertVars>>

LinkOff ==
    /\ sejm_cache = EmptyCache
    /\ runPc = "off"
    /\ pc = "idle" /\ rcl = NoResult /\ rm_number = NoneStr
    /\ pass = "verify" /\ termIdx = 1
    /\ results = <<>> /\ outcomes = <<>> /\ result = NoResult
    /\ nSearch = 0 /\ nFetch = 0

MergeInit ==
    /\ mpc = "ready"
    /\ merged = NoResult
    /\ \E n \in 0..MaxStages : \E ds \in [1..n -> DateTexts] : \E k \in 0..n :
          /\ rcl_stages = RclStages(SubSeq(ds, 1, k))
          /\ sejm_stages = SejmStages(SubSeq(ds, k + 1, n))

InitMerge == LinkOff /\ MergeInit /\ PhaseOff /\ UnifyOff /\ RunOff /\ ConvertOff

NextMerge == MergeStages

SpecMerge == InitMerge /\ [][NextMerge]_vars

(***************************************************************************)
(* Project.determine_phase / update_phase                                  *)
(***************************************************************************)
\* Phase
PhaseRCL       == "rcl"
PhaseSEJM      == "sejm"
PhaseSENATE    == "senate"
PhasePRESIDENT == "president"
PhasePUBLISHED == "published"
PhaseREJECTED  == "rejected"
PhaseWITHDRAWN == "withdrawn"

\* "kw" in stage_name, on a name cut into tokens around its keywords
NameHas(stage_name, kw) == \E i \in 1..Len(stage_name) : stage_name[i] = kw

get_sejm_stages(p) == SelectSeq(p.stages, LAMBDA st : st.source = "sejm")

\* a variant that looks at the outcome before the publication
determine_phase_RejectedFirst(p) ==
    IF p.passed = "False" THEN PhaseREJECTED
    ELSE IF Truthy(p.eli) \/ Truthy(p.publication_date) THEN PhasePUBLISHED
    ELSE LET ss == get_sejm_stages(p)
         IN IF ss # <<>>
            THEN IF NameHas(ss[Len(ss)].stage_name, "Prezydent") THEN PhasePRESIDENT
                 ELSE IF NameHas(ss[Len(ss)].stage_name, "Senat") THEN PhaseSENATE
                 ELSE PhaseSEJM
            ELSE PhaseRCL

\* a variant that treats an absent passed value like a negative outcome
determine_phase_NotPassed(p) ==
    IF Truthy(p.eli) \/ Truthy(p.publication_date) THEN PhasePUBLISHED
    ELSE IF p.passed # "True" THEN PhaseREJECTED
    ELSE LET ss == get_sejm_stages(p)
         IN IF ss # <<>>
            THEN IF NameHas(ss[Len(ss)].stage_name, "Prezydent") THEN PhasePRESIDENT
                 ELSE IF NameHas(ss[Len(ss)].stage_name, "Senat") THEN PhaseSENATE
                 ELSE PhaseSEJM
            ELSE PhaseRCL

\* a variant that looks for the Senate before the President
determine_phase_SenateFirst(p) ==
    IF Truthy(p.eli) \/ Truthy(p.publication_date) THEN PhasePUBLISHED
    ELSE IF p.passed = "False" THEN PhaseREJECTED
    ELSE LET ss == get_sejm_stages(p)
         IN IF ss # <<>>
            THEN IF NameHas(ss[Len(ss)].stage_name, "Senat") THEN PhaseSENATE
                 ELSE IF NameHas(ss[Len(ss)].stage_name, "Prezydent") THEN PhasePRESIDENT
                 ELSE PhaseSEJM
            ELSE PhaseRCL

determine_phase(p) ==
    IF Truthy(p.eli) \/ Truthy(p.publication_date) THEN PhasePUBLISHED
    ELSE IF p.passed = "False" THEN PhaseREJECTED
    ELSE LET ss == get_sejm_stages(p)
         IN IF ss # <<>>
            THEN IF NameHas(ss[Len(ss)].stage_name, "Prezydent") THEN PhasePRESIDENT
                 ELSE IF NameHas(ss[Len(ss)].stage_name, "Senat") THEN PhaseSENATE
                 ELSE PhaseSEJM
            ELSE PhaseRCL

\* Project.update_phase
UpdatePhase ==
    /\ ppc = "ready"
    /\ project' = [project EXCEPT !.phase = determine_phase(project)]
    /\ ppc' = "updated"
    /\ UNCHANGED <<linkVars, mergeVars, unifyVars, runVars, convertVars>>

StageNames ==
    { <<"I", "czytanie", "w", "Sejmie">>,
      <<"Stanowisko", "Senat", "u">>,
      <<"Podpisanie", "przez", "Prezydent", "a">>,
      <<"Ustawe", "przekazano", "Prezydent", "owi", "i", "Marszalkowi", "Senat", "u">> }

PhaseStages == {Stage(NoneDate, src, nm) : src \in {"rcl", "sejm"}, nm \in StageNames}

PhaseInit ==
    /\ ppc = "ready"
    /\ \E n \in 0..MaxStages : \E ss \in [1..n -> PhaseStages] :
       \E e \in {NoneStr, EmptyStr, <<"DU/2024/123">>} :
       \E pd \in {NoneStr, <<"2024-05-06">>} :
       \E pa \in {"None", "True", "False"} :
          project = [eli |-> e, publication_date |-> pd, passed |-> pa,
                     stages |-> ss, phase |-> PhaseRCL]

InitPhase == LinkOff /\ MergeOff /\ PhaseInit /\ UnifyOff /\ RunOff /\ ConvertOff

NextPhase == UpdatePhase

SpecPhase == InitPhase /\ [][NextPhase]_vars

(***************************************************************************)
(* What link_project can return for a record, given the processes the      *)
(* registry serves: its four return statements                             *)
(***************************************************************************)
LinkOutcomes(r, procs) ==
    LET rm    == extract_rm_number(r)
        title == Get(r.title, EmptyStr)
    IN IF ~Truthy(rm) THEN {NotLinked(EmptyStr, r, "none")}
       ELSE IF title = NoneTitle THEN {}
       ELSE IF QueryWords(title) = <<>> THEN {NotLinked(rm, r, "not_found")}
       ELSE {LinkedProject(rm, r, d, d.number, d.term, "rm_number") :
                 d \in {x \in procs : KeyMatches(x, rm)}}
            \cup {LinkedProject(rm, r, d, d.number, d.term, "title_fuzzy") : d \in procs}
            \cup {NotLinked(rm, r, "not_found")}

(***************************************************************************)
(* Unifier.unify, one auxiliary lookup per step                            *)
(***************************************************************************)
\* a stage dict of a government record (RCLStage as dict)
RclStage(stage_number, start_date, last_modified, stage_name) ==
    [stage_number |-> stage_number, start_date |-> start_date,
     last_modified |-> last_modified, stage_name |-> stage_name]

\* a child entry of a process's stage: its "voting" payload (NoPayload when
\* the key is absent), and the keys of a Referral / CommitteeReport child
Child(stageType, voting, committeeCode, rapporteurName, proposal) ==
    [stageType |-> stageType, voting |-> voting, committeeCode |-> committeeCode,
     rapporteurName |-> rapporteurName, proposal |-> proposal]

NoPayload == [present |-> FALSE, yes |-> 0, no |-> 0]
Payload(yes, no) == [present |-> TRUE, yes |-> yes, no |-> no]

VotingChild(yes, no) == Child(<<"Voting">>, Payload(yes, no), Missing, Missing, Missing)

\* a stage dict of a process
SejmStage(date, stageName, stageType, committeeCode, children) ==
    [date |-> date, stageName |-> stageName, stageType |-> stageType,
     committeeCode |-> committeeCode, children |-> children]

\* a process as get_process returns it
Process(number, rclNum, term, passed, eli, stages) ==
    [number |-> number, rclNum |-> rclNum, term |-> term,
     passed |-> passed, ELI |-> eli, stages |-> stages]

DateTruthy(d) == d # NoneDate /\ d # <<>>

\* Unifier.convert_rcl_stages
convert_rcl_stages(rcl_project) ==
    LET stages == rcl_project.stages
    IN [i \in 1..Len(stages) |->
           [Stage(IF DateTruthy(stages[i].start_date) THEN stages[i].start_date
                  ELSE stages[i].last_modified,
                  "rcl", stages[i].stage_name)
            EXCEPT !.stage_type = <<"rcl_stage_", NumStr[stages[i].stage_number]>>]]

\* a variant that keeps the first voting payload found
RECURSIVE StageVoting_FirstWins(_)
StageVoting_FirstWins(children) ==
    IF children = <<>> THEN NoneVoting
    ELSE LET v == Head(children).voting
         IN IF v.present
            THEN Voting(v.yes, v.no, IF v.yes > v.no THEN "passed" ELSE "rejected")
            ELSE StageVoting_FirstWins(Tail(children))

\* the loop over the children in convert_sejm_stages: every child that has a
\* "voting" key overwrites the voting found before it
RECURSIVE StageVoting(_)
StageVoting(children) ==
    IF children = <<>> THEN NoneVoting
    ELSE LET v == children[Len(children)].voting
         IN IF v.present
            THEN Voting(v.yes, v.no, IF v.yes > v.no THEN "passed" ELSE "rejected")
            ELSE StageVoting(SubSeq(children, 1, Len(children) - 1))

\* Unifier.convert_sejm_stages
convert_sejm_stages(sejm_process) ==
    LET stages == sejm_process.stages
    IN [i \in 1..Len(stages) |->
           [Stage(stages[i].date, "sejm", stages[i].stageName)
            EXCEPT !.stage_type = Get(stages[i].stageType, NoneStr),
                   !.committee_code = Get(stages[i].committeeCode, NoneStr),
                   !.voting = StageVoting(stages[i].children)]]

\* Voting values: none, the one read from the process data, the enriched one
NoVoting       == [source |-> "none", by_party |-> <<>>]
BasicVoting    == [source |-> "process", by_party |-> <<>>]
EnrichedVoting == [source |-> "enriched", by_party |-> <<"KO", "PiS">>]

\* extract_voting's fallback: the last voting found in the process's stages
FallbackVoting(sejm_process) ==
    IF \E i \in 1..Len(sejm_process.stages) :
          \E c \in 1..Len(sejm_process.stages[i].children) :
             sejm_process.stages[i].children[c].voting.present
    THEN BasicVoting ELSE NoVoting

\* Project(...) as unify builds it, the other fields at their defaults
BaseProject(lp, merged_stages) ==
    [rcl_id |-> Get(lp.rcl_project.project_id, EmptyStr),
     rm_number |-> IF Truthy(lp.rm_number) THEN lp.rm_number ELSE NoneStr,
     sejm_print |-> lp.sejm_print,
     sejm_term |-> NoneInt,
     stages |-> merged_stages,
     phase |-> PhaseRCL,
     passed |-> "None",
     eli |-> NoneStr,
     publication_date |-> NoneStr,
     voting |-> NoVoting,
     committees |-> <<>>,
     rapporteurs |-> <<>>,
     senate_position |-> NoneStr,
     president_signature_date |-> NoneStr,
     tribunal_cases |-> <<>>]

\* the auxiliary lookups of unify, in the order of the calls; a variant that
\* does not look at "if sejm:"
Lookups_Unguarded(lp, p) ==
    <<"committees", "rapporteurs", "senate_position", "president_signature">>

Lookups(lp, p) ==
    IF lp.sejm_process = NoneProc THEN <<>>
    ELSE IF Truthy(p.eli)
    THEN <<"voting", "committees", "rapporteurs", "senate_position",
           "president_signature", "eli", "tribunal">>
    ELSE <<"voting", "committees", "rapporteurs", "senate_position", "president_signature">>

LookupOutcomes == {"raise", "absent", "found"}

\* CURRENT_TERM of the registry client, and the client Unifier.__init__
\* creates for the enrichment lookups: SejmAPIEnrich(), the default generation
CURRENT_TERM == 10
sejm_api_enrich == [term |-> CURRENT_TERM]

\* the lookups that go to the registry client
RegistryLookups ==
    {"voting", "committees", "rapporteurs", "senate_position", "president_signature"}

\* the generation a lookup is issued against: base_url of the client that
\* makes it (NoneInt for the lookups that go elsewhere)
LookupTerm(lookup) ==
    IF lookup \in RegistryLookups THEN sejm_api_enrich.term ELSE NoneInt

\* the entry the log keeps of a lookup
Logged(lookup, outcome) ==
    [lookup |-> lookup, outcome |-> outcome, term |-> LookupTerm(lookup)]

\* what a lookup stores into the Project: on "raise" the except clause of
\* extract_voting / fetch_* gives the fallback value
Store(p, sejm_process, lookup, outcome) ==
    CASE lookup = "voting" ->
            [p EXCEPT !.voting = IF outcome = "found" THEN EnrichedVoting
                                 ELSE FallbackVoting(sejm_process)]
      [] lookup = "committees" ->
            [p EXCEPT !.committees = IF outcome = "found" THEN <<"ZDR">> ELSE <<>>]
      [] lookup = "rapporteurs" ->
            [p EXCEPT !.rapporteurs = IF outcome = "found" THEN <<"Kowalski">> ELSE <<>>]
      [] lookup = "senate_position" ->
            [p EXCEPT !.senate_position =
                 IF outcome = "found" THEN <<"bez poprawek">> ELSE NoneStr]
      [] lookup = "president_signature" ->
            [p EXCEPT !.president_signature_date =
                 IF outcome = "found" THEN <<"2024-05-01">> ELSE NoneStr]
      [] lookup = "eli" ->
            IF outcome = "found" THEN [p EXCEPT !.publication_date = <<"2024-05-06">>]
            ELSE p
      [] lookup = "tribunal" ->
            [p EXCEPT !.tribunal_cases = IF outcome = "found" THEN <<"K 16/24">> ELSE <<>>]

\* project.update_phase(); return project -- and a variant that returns the
\* Project without resolving its phase
Finished_NoUpdate(p) == p

Finished(p) == [p EXCEPT !.phase = determine_phase(p)]

\* unify up to its first auxiliary lookup: the stage conversions, the merge
\* and the Project built from them; raised when merge_stages raised
UnifyStart(lp) ==
    LET rcl_  == lp.rcl_project
        sejm  == lp.sejm_process
        rs    == convert_rcl_stages(rcl_)
        ss    == IF sejm # NoneProc THEN convert_sejm_stages(sejm) ELSE <<>>
        m     == merge_stages(rs, ss)
        base  == BaseProject(lp, m.value)
        p     == IF sejm = NoneProc THEN base
                 ELSE [base EXCEPT !.sejm_term = IF sejm.term = NoneInt THEN 10
                                                 ELSE sejm.term,
                                   !.passed = sejm.passed,
                                   !.eli = IF Truthy(Get(sejm.ELI, NoneStr))
                                           THEN sejm.ELI ELSE NoneStr]
    IN [raised |-> m.raised, value |-> p]

Unify ==
    /\ upc = "ready"
    /\ LET s == UnifyStart(linked)
           p == s.value
       IN IF s.raised
          THEN upc' = "raised" /\ uproject' = NoResult
          ELSE IF Lookups(linked, p) = <<>>
          THEN upc' = "done" /\ uproject' = Finished(p)
          ELSE upc' = "lookup" /\ uproject' = p
    /\ UNCHANGED <<linked, ulog>>
    /\ UNCHANGED <<linkVars, mergeVars, phaseVars, runVars, convertVars>>

NextLookup == Lookups(linked, uproject)[Len(ulog) + 1]

\* the lookup just made was logged as log: unify goes on to the next lookup,
\* or resolves the phase and returns
AfterLookup(p, log) ==
    /\ ulog' = log
    /\ IF Len(log) < Len(Lookups(linked, p))
       THEN upc' = "lookup" /\ uproject' = p
       ELSE upc' = "done" /\ uproject' = Finished(p)

\* a variant in which the lookup's exception leaves unify
LookupRaisesUncaught ==
    /\ upc = "lookup"
    /\ ulog' = Append(ulog, Logged(NextLookup, "raise"))
    /\ upc' = "raised"
    /\ UNCHANGED <<linked, uproject>>
    /\ UNCHANGED <<linkVars, mergeVars, phaseVars, runVars, convertVars>>

\* the collaborator raises: caught in extract_voting / fetch_*, warning printed
LookupRaises ==
    /\ upc = "lookup"
    /\ AfterLookup(Store(uproject, linked.sejm_process, NextLookup, "raise"),
                   Append(ulog, Logged(NextLookup, "raise")))
    /\ UNCHANGED linked
    /\ UNCHANGED <<linkVars, mergeVars, phaseVars, runVars, convertVars>>

\* the collaborator answers: nothing ("absent") or a value ("found")
LookupReturns(outcome) ==
    /\ upc = "lookup"
    /\ AfterLookup(Store(uproject, linked.sejm_process, NextLookup, outcome),
                   Append(ulog, Logged(NextLookup, outcome)))
    /\ UNCHANGED linked
    /\ UNCHANGED <<linkVars, mergeVars, phaseVars, runVars, convertVars>>

\* Project.update_phase called once more on the Project unify returned
UpdatePhaseAgain ==
    /\ upc = "done"
    /\ upc' = "again"
    /\ uproject' = [uproject EXCEPT !.phase = determine_phase(uproject)]
    /\ UNCHANGED <<linked, ulog>>
    /\ UNCHANGED <<linkVars, mergeVars, phaseVars, runVars, convertVars>>

\* government records and processes handed to unify
UnifyRclStageLists ==
    { <<>>,
      <<RclStage(1, DMY(1, 3, 2024), NoneDate, <<"Konsultacje">>)>>,
      <<RclStage(1, NoneDate, DMY(15, 3, 2024), <<"Uzgodnienia">>),
        RclStage(2, NoneDate, NoneDate, <<"Komitet">>)>> }

UnifySejmStageLists ==
    { <<>>,
      <<SejmStage(YMD(2024, 4, 1), <<"I", "czytanie", "w", "Sejmie">>, <<"SejmReading">>, Missing, <<>>)>>,
      <<SejmStage(YMD(2024, 4, 1), <<"I", "czytanie", "w", "Sejmie">>, <<"SejmReading">>, Missing, <<VotingChild(230, 200)>>),
        SejmStage(NoneDate, <<"Stanowisko", "Senat", "u">>, <<"SejmReading">>, Missing, <<>>)>>,
      <<SejmStage(TimestampZ(2024, 4, 1, 10), <<"I", "czytanie", "w", "Sejmie">>, <<"SejmReading">>, Missing, <<>>)>> }

UnifyRecords ==
    [project_id : {<<"12387250">>}, sejm_url : {Missing, URL_K1},
     title : {Title_Plain}, stages : UnifyRclStageLists]

UnifyProcesses ==
    {Process("101", k, 10, pa, e, st) :
        k \in {RM1, RM2}, pa \in {"None", "True", "False"},
        e \in {Missing, <<"DU/2024/123">>}, st \in UnifySejmStageLists}
    \cup {Process("77", RM1, 9, "True", e, st) :
             e \in {Missing, <<"DU/2024/123">>}, st \in UnifySejmStageLists}

UnifyInit ==
    /\ upc = "ready"
    /\ \E r \in UnifyRecords : linked \in LinkOutcomes(r, UnifyProcesses)
    /\ uproject = NoResult
    /\ ulog = <<>>

InitUnify == LinkOff /\ MergeOff /\ PhaseOff /\ UnifyInit /\ RunOff /\ ConvertOff

NextUnify ==
    \/ Unify
    \/ LookupRaises
    \/ \E o \in {"absent", "found"} : LookupReturns(o)
    \/ UpdatePhaseAgain

SpecUnify == InitUnify /\ [][NextUnify]_vars

(***************************************************************************)
(* unify as one call: every collaborator of the call answers alike          *)
(***************************************************************************)
RECURSIVE LookupsFrom(_, _, _, _)
LookupsFrom(p, lp, outcome, n) ==
    IF n >= Len(Lookups(lp, p)) THEN Finished(p)
    ELSE LookupsFrom(Store(p, lp.sejm_process, Lookups(lp, p)[n + 1], outcome),
                     lp, outcome, n + 1)

\* the Projects unify can return for a LinkedProject; none when it raises
UnifyOutcomes(lp) ==
    IF UnifyStart(lp).raised THEN {}
    ELSE {LookupsFrom(UnifyStart(lp).value, lp, o, 0) : o \in {"raise", "found"}}

(***************************************************************************)
(* The database: a table is the sequence of its rows in insertion order,    *)
(* a row a function from column names; "id" is given at insertion           *)
(***************************************************************************)
Hits(table, row, key) ==
    {i \in 1..Len(table) : \A k \in key : table[i][k] = row[k]}

\* a variant that inserts whether or not a row with the key exists
Upsert_AlwaysInsert(table, row, key) ==
    Append(table, row @@ [id |-> Len(table) + 1])

\* table(...).upsert(row, on_conflict=key): the columns given replace those
\* of the row holding the key, the others stay
Upsert(table, row, key) ==
    IF Hits(table, row, key) # {}
    THEN [i \in 1..Len(table) |->
             IF i \in Hits(table, row, key) THEN row @@ table[i] ELSE table[i]]
    ELSE Append(table, row @@ [id |-> Len(table) + 1])

RECURSIVE UpsertAll(_, _, _)
UpsertAll(table, rows, key) ==
    IF rows = <<>> THEN table
    ELSE UpsertAll(Upsert(table, Head(rows), key), Tail(rows), key)

\* result.data[0]: the row written last
Written(table, row, key) ==
    table[CHOOSE i \in Hits(table, row, key) :
              \A j \in Hits(table, row, key) : j <= i]

\* ProjectsDB._parse_date
RECURSIVE SplitOn(_, _)
SplitOn(s, c) ==
    IF HasChar(s, c)
    THEN LET i == CHOOSE n \in 1..Len(s) :
                      s[n].k = c /\ \A m \in 1..(n - 1) : s[m].k # c
         IN <<SubSeq(s, 1, i - 1)>> \o SplitOn(SubSeq(s, i + 1, Len(s)), c)
    ELSE <<s>>

IndexError == <<[k |-> "<IndexError>", w |-> 0, v |-> 0]>>

_parse_date(date_str) ==
    LET parts == SplitOn(date_str, "-")
    IN IF ~DateTruthy(date_str) THEN NoneDate
       ELSE IF HasChar(date_str, "-") /\ StrLen(date_str) = 10 /\ StrLen(parts[1]) = 2
       THEN IF Len(parts) < 3 THEN IndexError
            ELSE parts[3] \o <<Sep("-")>> \o parts[2] \o <<Sep("-")>> \o parts[1]
       ELSE date_str

\* the dict upsert_project sends: project_data of the save loop, the
\* modification time, the None values removed
ProjectRow(p, now) ==
    LET data == [rcl_id |-> p.rcl_id,
                 rm_number |-> p.rm_number,
                 last_modified |-> now,
                 phase |-> p.phase,
                 sejm_print |-> p.sejm_print,
                 sejm_term |-> p.sejm_term,
                 eli |-> p.eli,
                 committees |-> p.committees,
                 rapporteurs |-> p.rapporteurs,
                 senate_position |-> p.senate_position,
                 president_signature_date |-> p.president_signature_date]
        none == (IF Truthy(p.rm_number) THEN {} ELSE {"rm_number"})
                \cup (IF p.sejm_print = "None" THEN {"sejm_print"} ELSE {})
                \cup (IF p.sejm_term = NoneInt THEN {"sejm_term"} ELSE {})
                \cup (IF p.eli = NoneStr THEN {"eli"} ELSE {})
                \cup (IF p.senate_position = NoneStr THEN {"senate_position"} ELSE {})
                \cup (IF p.president_signature_date = NoneStr
                      THEN {"president_signature_date"} ELSE {})
    IN [k \in (DOMAIN data) \ none |-> data[k]]

\* the rows ProjectsDB.upsert_stages sends: the Project's stages of source
\* "rcl", numbered by their position in the merged list
RclStageRows(project_id, p) ==
    LET idx == SelectSeq([i \in 1..Len(p.stages) |-> i],
                         LAMBDA i : p.stages[i].source = "rcl")
    IN [n \in 1..Len(idx) |->
           [project_id |-> project_id,
            stage_number |-> idx[n],
            stage_name |-> p.stages[idx[n]].stage_name,
            start_date |-> _parse_date(p.stages[idx[n]].date),
            last_modified |-> _parse_date(p.stages[idx[n]].date)]]

\* the row VotingsDB.upsert_voting sends
VotingRow(project_id, p) ==
    [project_id |-> project_id, result |-> p.voting.source]

\* the rows VotingsDB._upsert_party_breakdown sends
PartyRows(voting_id, p) ==
    [n \in 1..Len(p.voting.by_party) |->
        [voting_id |-> voting_id, party |-> p.voting.by_party[n]]]

\* SejmStagesDB.upsert_stages, the loop over a stage's children: a
\* CommitteeReport child gives the rapporteur and the proposal, a Referral
\* child the committee code
RECURSIVE FlattenChildren(_, _)
FlattenChildren(stage_data, children) ==
    IF children = <<>> THEN stage_data
    ELSE LET child == Head(children)
             d1 == IF child.stageType = <<"CommitteeReport">>
                   THEN [stage_data EXCEPT
                            !.rapporteur_name = Get(child.rapporteurName, NoneStr),
                            !.proposal = Get(child.proposal, NoneStr)]
                   ELSE stage_data
             d2 == IF child.stageType = <<"Referral">>
                   THEN [d1 EXCEPT !.committee_code = Get(child.committeeCode, NoneStr)]
                   ELSE d1
         IN FlattenChildren(d2, Tail(children))

\* the rows SejmStagesDB.upsert_stages sends
SejmStageRows(project_id, stages) ==
    [n \in 1..Len(stages) |->
        FlattenChildren([project_id |-> project_id,
                         stage_number |-> n,
                         stage_name |-> stages[n].stageName,
                         stage_date |-> stages[n].date,
                         committee_code |-> Get(stages[n].committeeCode, NoneStr),
                         rapporteur_name |-> NoneStr,
                         proposal |-> NoneStr],
                        stages[n].children)]

\* linked_by_rcl_id.get(project.rcl_id): a dict comprehension over "linked",
\* so of several entries with one project_id the last one stays
LinkedByRclId(list, rcl_id) ==
    LET at == {i \in 1..Len(list) : Get(list[i].rcl_project.project_id, NoneStr) = rcl_id}
    IN IF at = {} THEN NoResult
       ELSE list[CHOOSE i \in at : \A j \in at : j <= i]

\* one iteration of the save loop
SaveOne(d, p, lp, now) ==
    LET key1   == {"rcl_id"}
        row    == ProjectRow(p, now)
        t1     == Upsert(d.projects, row, key1)
        res    == Written(t1, row, key1)
        srows  == RclStageRows(res.id, p)
        t2     == IF srows # <<>>
                  THEN UpsertAll(d.rcl_stages, srows, {"project_id", "stage_number"})
                  ELSE d.rcl_stages
        hasV   == p.voting # NoVoting
        vrow   == VotingRow(res.id, p)
        t3     == IF hasV THEN Upsert(d.project_votings, vrow, {"project_id"})
                  ELSE d.project_votings
        t4     == IF hasV /\ p.voting.by_party # <<>>
                  THEN UpsertAll(d.voting_by_party,
                                 PartyRows(Written(t3, vrow, {"project_id"}).id, p),
                                 {"voting_id", "party"})
                  ELSE d.voting_by_party
        t5     == IF lp # NoResult /\ lp.sejm_process # NoneProc
                     /\ lp.sejm_process.stages # <<>>
                  THEN UpsertAll(d.sejm_stages,
                                 SejmStageRows(res.id, lp.sejm_process.stages),
                                 {"project_id", "stage_number"})
                  ELSE d.sejm_stages
    IN [projects |-> t1, rcl_stages |-> t2, project_votings |-> t3,
        voting_by_party |-> t4, sejm_stages |-> t5]

(***************************************************************************)
(* Pipeline.run                                                            *)
(***************************************************************************)
MaxRuns == 2

\* the listing page: records with distinct ids, in either order
RecordA ==
    [project_id |-> <<"12387250">>, sejm_url |-> Missing, title |-> Title_Plain,
     stages |-> <<RclStage(1, DMY(1, 3, 2024), NoneDate, <<"Konsultacje">>)>>]
RecordB ==
    [project_id |-> <<"12390001">>, sejm_url |-> URL_K1, title |-> Title_Plain,
     stages |-> <<RclStage(2, DMY(15, 3, 2024), NoneDate, <<"Uzgodnienia">>)>>]

Listings == {<<>>, <<RecordA>>, <<RecordB>>, <<RecordA, RecordB>>, <<RecordB, RecordA>>}

RclIds == {RecordA.project_id, RecordB.project_id}

\* the processes the registry serves during the runs
RunProcesses ==
    {Process("101", RM1, 10, "True", Missing,
             <<SejmStage(YMD(2024, 4, 1), <<"I", "czytanie", "w", "Sejmie">>, <<"SejmReading">>, Missing, <<VotingChild(230, 200)>>)>>),
     Process("102", RM2, 10, "None", Missing,
             <<SejmStage(TimestampZ(2024, 4, 1, 10), <<"I", "czytanie", "w", "Sejmie">>, <<"SejmReading">>, Missing, <<>>)>>)}

\* LinkedProject(rm_number="", rcl_project=p, link_method="skipped")
Skipped(p) == LinkedProject(EmptyStr, p, NoneProc, "None", NoneInt, "skipped")

\* the list a call appends its result to -- and a variant that puts it first
Appended_AtFront(list, x) == <<x>> \o list

Appended(list, x) == Append(list, x)

Call(what) == [calls EXCEPT ![what] = @ + 1]

\* a variant of the handler that marks the entry completed before "raise"
FailSync_MarkedCompleted ==
    /\ sync_log' = [sync_log EXCEPT ![Len(sync_log)] = "completed"]
    /\ rpc' = "raised"

\* SyncLogDB.fail_sync on the entry of this run, then "raise"
FailSync ==
    /\ sync_log' = [sync_log EXCEPT ![Len(sync_log)] = "failed"]
    /\ rpc' = "raised"

\* run(...) is called: SyncLogDB.start_sync
StartSync(flag) ==
    /\ rpc \in {"idle", "returned", "raised"}
    /\ Len(sync_log) < MaxRuns
    /\ sync_log' = Append(sync_log, "running")
    /\ link_to_sejm' = flag
    /\ rcl_projects' = <<>> /\ linked_list' = <<>> /\ projects' = <<>>
    /\ saved' = 0 /\ calls' = NoCalls
    /\ rpc' = "scrape"
    /\ UNCHANGED <<db, persisted>>
    /\ UNCHANGED <<linkVars, mergeVars, phaseVars, unifyVars, convertVars>>

\* a variant in which the failure leaves run without the entry being marked
ScrapeRaises_LogLeftRunning ==
    /\ rpc = "scrape"
    /\ rpc' = "raised"
    /\ UNCHANGED <<link_to_sejm, rcl_projects, linked_list, projects, saved, calls,
                   sync_log, db, persisted>>
    /\ UNCHANGED <<linkVars, mergeVars, phaseVars, unifyVars, convertVars>>

\* scrape_all_projects raises (a listing or detail request failed)
ScrapeRaises ==
    /\ rpc = "scrape"
    /\ FailSync
    /\ UNCHANGED <<link_to_sejm, rcl_projects, linked_list, projects, saved, calls,
                   db, persisted>>
    /\ UNCHANGED <<linkVars, mergeVars, phaseVars, unifyVars, convertVars>>

\* scrape_all_projects returns the records of the page
ScrapeReturns(rs) ==
    /\ rpc = "scrape"
    /\ rcl_projects' = rs
    /\ rpc' = "link"
    /\ UNCHANGED <<link_to_sejm, linked_list, projects, saved, calls,
                   sync_log, db, persisted>>
    /\ UNCHANGED <<linkVars, mergeVars, phaseVars, unifyVars, convertVars>>

\* link_to_sejm is False: one "skipped" LinkedProject per record
LinkSkipped ==
    /\ rpc = "link" /\ ~link_to_sejm
    /\ linked_list' = [i \in 1..Len(rcl_projects) |-> Skipped(rcl_projects[i])]
    /\ rpc' = "unify"
    /\ UNCHANGED <<link_to_sejm, rcl_projects, projects, saved, calls,
                   sync_log, db, persisted>>
    /\ UNCHANGED <<linkVars, mergeVars, phaseVars, unifyVars, convertVars>>

\* link_projects: link_project returns for the next record
LinkOne(lp) ==
    /\ rpc = "link" /\ link_to_sejm
    /\ Len(linked_list) < Len(rcl_projects)
    /\ lp \in LinkOutcomes(rcl_projects[Len(linked_list) + 1], RunProcesses)
    /\ linked_list' = Appended(linked_list, lp)
    /\ calls' = Call("link")
    /\ UNCHANGED <<rpc, link_to_sejm, rcl_projects, projects, saved,
                   sync_log, db, persisted>>
    /\ UNCHANGED <<linkVars, mergeVars, phaseVars, unifyVars, convertVars>>

\* link_projects: link_project raises for the next record (a record with a
\* key, while the registry is consulted)
LinkOneRaises ==
    /\ rpc = "link" /\ link_to_sejm
    /\ Len(linked_list) < Len(rcl_projects)
    /\ Truthy(extract_rm_number(rcl_projects[Len(linked_list) + 1]))
    /\ calls' = Call("link")
    /\ FailSync
    /\ UNCHANGED <<link_to_sejm, rcl_projects, linked_list, projects, saved,
                   db, persisted>>
    /\ UNCHANGED <<linkVars, mergeVars, phaseVars, unifyVars, convertVars>>

\* link_projects returns "linked"
LinkAllReturns ==
    /\ rpc = "link" /\ link_to_sejm
    /\ Len(linked_list) = Len(rcl_projects)
    /\ rpc' = "unify"
    /\ UNCHANGED <<link_to_sejm, rcl_projects, linked_list, projects, saved, calls,
                   sync_log, db, persisted>>
    /\ UNCHANGED <<linkVars, mergeVars, phaseVars, unifyVars, convertVars>>

\* unify_all: unify returns for the next LinkedProject
UnifyOne(p) ==
    /\ rpc = "unify"
    /\ Len(projects) < Len(linked_list)
    /\ p \in UnifyOutcomes(linked_list[Len(projects) + 1])
    /\ projects' = Appended(projects, p)
    /\ calls' = Call("unify")
    /\ UNCHANGED <<rpc, link_to_sejm, rcl_projects, linked_list, saved,
                   sync_log, db, persisted>>
    /\ UNCHANGED <<linkVars, mergeVars, phaseVars, unifyVars, convertVars>>

\* unify_all: unify raises for the next LinkedProject (merge_stages raised)
UnifyOneRaises ==
    /\ rpc = "unify"
    /\ Len(projects) < Len(linked_list)
    /\ UnifyStart(linked_list[Len(projects) + 1]).raised
    /\ calls' = Call("unify")
    /\ FailSync
    /\ UNCHANGED <<link_to_sejm, rcl_projects, linked_list, projects, saved,
                   db, persisted>>
    /\ UNCHANGED <<linkVars, mergeVars, phaseVars, unifyVars, convertVars>>

\* unify_all returns "projects"
UnifyAllReturns ==
    /\ rpc = "unify"
    /\ Len(projects) = Len(linked_list)
    /\ rpc' = "save"
    /\ UNCHANGED <<link_to_sejm, rcl_projects, linked_list, projects, saved, calls,
                   sync_log, db, persisted>>
    /\ UNCHANGED <<linkVars, mergeVars, phaseVars, unifyVars, convertVars>>

\* the save loop writes the next Project and its child rows; the time of the
\* write is that of the run
SaveProject ==
    /\ rpc = "save"
    /\ saved < Len(projects)
    /\ LET p == projects[saved + 1]
       IN /\ db' = SaveOne(db, p, LinkedByRclId(linked_list, p.rcl_id), Len(sync_log))
          /\ persisted' = [persisted EXCEPT ![p.rcl_id] = Append(@, p)]
    /\ saved' = saved + 1
    /\ calls' = Call("upsert")
    /\ UNCHANGED <<rpc, link_to_sejm, rcl_projects, linked_list, projects, sync_log>>
    /\ UNCHANGED <<linkVars, mergeVars, phaseVars, unifyVars, convertVars>>

\* the tables after an iteration of the save loop in which the named call
\* raised: the calls before it have written, the ones after it have not run
SavePartial(d, p, lp, now, failing) ==
    LET full == SaveOne(d, p, lp, now)
    IN [d EXCEPT !.projects   = IF failing = "upsert_project" THEN @ ELSE full.projects,
                 !.rcl_stages = IF failing = "upsert_voting" THEN full.rcl_stages ELSE @]

\* the save loop: upsert_project, upsert_stages or upsert_voting raises for
\* the next Project (the Sejm stage and document writes are guarded by their
\* own try/except and only print a warning)
SaveRaises(failing) ==
    /\ rpc = "save"
    /\ saved < Len(projects)
    /\ LET p == projects[saved + 1]
       IN /\ failing = "upsert_stages" => RclStageRows(0, p) # <<>>
          /\ failing = "upsert_voting" => p.voting # NoVoting
          /\ db' = SavePartial(db, p, LinkedByRclId(linked_list, p.rcl_id),
                               Len(sync_log), failing)
          /\ persisted' = IF failing = "upsert_project" THEN persisted
                          ELSE [persisted EXCEPT ![p.rcl_id] = Append(@, NoResult)]
    /\ calls' = Call("upsert")
    /\ FailSync
    /\ UNCHANGED <<link_to_sejm, rcl_projects, linked_list, projects, saved>>
    /\ UNCHANGED <<linkVars, mergeVars, phaseVars, unifyVars, convertVars>>

\* SyncLogDB.finish_sync; run returns "projects"
FinishSync ==
    /\ rpc = "save"
    /\ saved = Len(projects)
    /\ sync_log' = [sync_log EXCEPT ![Len(sync_log)] = "completed"]
    /\ rpc' = "returned"
    /\ UNCHANGED <<link_to_sejm, rcl_projects, linked_list, projects, saved, calls,
                   db, persisted>>
    /\ UNCHANGED <<linkVars, mergeVars, phaseVars, unifyVars, convertVars>>

RunInit ==
    /\ rpc = "idle" /\ link_to_sejm = TRUE
    /\ rcl_projects = <<>> /\ linked_list = <<>> /\ projects = <<>>
    /\ saved = 0 /\ calls = NoCalls
    /\ sync_log = <<>> /\ db = EmptyDb
    /\ persisted = [id \in RclIds |-> <<>>]

InitRun == LinkOff /\ MergeOff /\ PhaseOff /\ UnifyOff /\ RunInit /\ ConvertOff

NextRun ==
    \/ \E flag \in BOOLEAN : StartSync(flag)
    \/ ScrapeRaises
    \/ \E rs \in Listings : ScrapeReturns(rs)
    \/ LinkSkipped
    \/ \E lp \in UNION {LinkOutcomes(r, RunProcesses) : r \in {RecordA, RecordB}} : LinkOne(lp)
    \/ LinkOneRaises
    \/ LinkAllReturns
    \/ \E p \in UNION {UnifyOutcomes(lp) :
                          lp \in UNION {LinkOutcomes(r, RunProcesses) \cup {Skipped(r)} :
                                            r \in {RecordA, RecordB}}} : UnifyOne(p)
    \/ UnifyOneRaises
    \/ UnifyAllReturns
    \/ SaveProject
    \/ \E failing \in {"upsert_project", "upsert_stages", "upsert_voting"} :
           SaveRaises(failing)
    \/ FinishSync

SpecRun == InitRun /\ [][NextRun]_vars

(***************************************************************************)
(* convert_sejm_stages applied to a process                                *)
(***************************************************************************)
MaxChildren == 2

\* child entries: votings carried, lost and tied, a referral to a committee,
\* a committee report
Children ==
    { VotingChild(230, 200), VotingChild(200, 230), VotingChild(215, 215),
      Child(<<"Referral">>, NoPayload, <<"ZDR">>, Missing, Missing),
      Child(<<"CommitteeReport">>, NoPayload, Missing, <<"Jan", "Kowalski">>,
            <<"przyjac", "bez", "poprawek">>) }

\* the stage lists of the processes: a first stage with any children, and
\* possibly a second one
ConvertStageLists ==
    LET first == {SejmStage(YMD(2024, 4, 1), <<"Praca", "w", "komisjach">>,
                            <<"CommitteeWork">>, cc, ch) :
                      cc \in {Missing, <<"FPB">>},
                      ch \in SeqsUpTo(Children, MaxChildren)}
        second == {SejmStage(NoneDate, <<"III", "czytanie">>, <<"SejmReading">>, Missing, ch) :
                      ch \in {<<>>, <<VotingChild(230, 200)>>}}
    IN {<<>>} \cup {<<a>> : a \in first} \cup {<<a, b>> : a \in first, b \in second}

ConvertSejmStages ==
    /\ cpc = "ready"
    /\ cstages' = convert_sejm_stages(cprocess)
    /\ cpc' = "done"
    /\ UNCHANGED cprocess
    /\ UNCHANGED <<linkVars, mergeVars, phaseVars, unifyVars, runVars>>

ConvertInit ==
    /\ cpc = "ready"
    /\ \E st \in ConvertStageLists :
           cprocess = Process("101", RM1, 10, "None", Missing, st)
    /\ cstages = <<>>

InitConvert == LinkOff /\ MergeOff /\ PhaseOff /\ UnifyOff /\ RunOff /\ ConvertInit

NextConvert == ConvertSejmStages

SpecConvert == InitConvert /\ [][NextConvert]_vars

(***************************************************************************)
(* Properties of the Linker (checked under Spec)                           *)
(***************************************************************************)
IdRM == <<"I", "d", "=", "R", "M", "-">>

\* the text u holds an occurrence of Id=RM- followed by a digit or a dash
HoldsKey(u) ==
    \E i \in 1..Len(u) :
        /\ i + 6 <= Len(u)
        /\ \A k \in 1..6 : u[i + k - 1] = IdRM[k]
        /\ u[i + 6] \in Digits \cup {"-"}

HoldsNoKey(r) ==
    \/ r.sejm_url \in {Missing, NoneStr, EmptyStr}
    \/ ~HoldsKey(r.sejm_url)

CallUnderWay == pc \in {"search", "fetch", "done", "raised"}

\* C1: for a record whose sejm_url is missing, empty or holds no Id=RM-...
\* key, link_project returns method "none" with an empty RM number and no
\* process, and has issued no search_processes and no get_process call.
C1_NoKeyNoCalls ==
    (CallUnderWay /\ HoldsNoKey(rcl)) =>
        /\ pc = "done"
        /\ result.link_method = "none"
        /\ result.rm_number = EmptyStr
        /\ result.sejm_process = NoneProc
        /\ result.rcl_project = rcl
        /\ nSearch = 0 /\ nFetch = 0

C1_Witness ==
    /\ pc = "done"
    /\ rcl.sejm_url = URL_NoKey
    /\ result.link_method = "none"

\* C2: a LinkedProject of the verified tier (link_method "rm_number", the
\* tier reached through the rclNum check) carries a process whose rclNum
\* equals the LinkedProject's RM number.
C2_VerifiedKeyEqual ==
    (pc = "done" /\ result.link_method = "rm_number") =>
        /\ result.sejm_process # NoneProc
        /\ result.sejm_process.rclNum = result.rm_number

C2_Witness ==
    /\ pc = "done"
    /\ result.link_method = "rm_number"
    /\ nSearch = 2
    /\ "err" \in {outcomes[i] : i \in 1..Len(outcomes)}

\* C3: a process whose rclNum equals the extracted RM number is never
\* returned with link_method "title_fuzzy".
C3_FuzzyNeverMatchesKey ==
    (pc = "done" /\ result.link_method = "title_fuzzy") =>
        result.sejm_process.rclNum # result.rm_number

\* C4: in the verifying call a get_process that raises is skipped: the loop
\* goes on with the next candidate of the list, or with the next term (after
\* the last term, with the title-only call); and when the first of two
\* candidates raised and the second one's rclNum matches, link_project
\* returns the verified tier with the second candidate's details and print.
C4_Continues ==
    (pc = "fetch" /\ pass = "verify" /\ nFetch' = nFetch + 1 /\ pc' # "done") =>
        IF Len(outcomes) + 1 < Len(results)
        THEN /\ pc' = "fetch" /\ pass' = "verify" /\ termIdx' = termIdx
             /\ results' = results
             /\ Len(outcomes') = Len(outcomes) + 1
        ELSE /\ pc' = "search"
             /\ \/ termIdx < Len(sejm_terms) /\ termIdx' = termIdx + 1 /\ pass' = "verify"
                \/ termIdx = Len(sejm_terms) /\ termIdx' = 1 /\ pass' = "fuzzy"

C4_SecondMatches ==
    (/\ pc = "fetch" /\ pass = "verify"
     /\ Len(results) = 2
     /\ outcomes = <<"err">>
     /\ outcomes' = <<"err", "ok">>
     /\ GetProcess(Term, results[2].number).rclNum = rm_number) =>
        /\ pc' = "done"
        /\ result' = LinkedProject(rm_number, rcl,
                                   GetProcess(Term, results[2].number),
                                   results[2].number, Term, "rm_number")

C4_FetchFailureSkipped == [][C4_Continues /\ C4_SecondMatches]_vars

C4_Witness ==
    /\ pc = "done"
    /\ pass = "verify"
    /\ outcomes = <<"err", "ok">>
    /\ result.link_method = "rm_number"
    /\ result.sejm_print = "901"

\* C5: no exception escapes link_project.
C5_NoExceptionEscapes == pc # "raised"

\* C6: a link_project call for a record whose RM number is in _sejm_cache
\* returns the cached process with the verified tier and issues no
\* search_processes and no get_process call.
C6_CacheHit ==
    [][(/\ runPc = "linking" /\ runPc' = "linking"
        /\ pc \in {"idle", "done"}
        /\ <<pc, rcl, result, nSearch, nFetch>>' # <<pc, rcl, result, nSearch, nFetch>>
        /\ extract_rm_number(rcl') \in DOMAIN sejm_cache) =>
            /\ pc' = "done"
            /\ result'.link_method = "rm_number"
            /\ result'.sejm_process = sejm_cache[extract_rm_number(rcl')]
            /\ nSearch' = 0 /\ nFetch' = 0]_vars

\* C7: when a run begins linking, _sejm_cache is empty.
C7_CacheEmptyAtRunStart ==
    (runPc = "linking" /\ pc = "idle") => sejm_cache = EmptyCache

\* C16: link_project returns "title_fuzzy" only from the title-only call,
\* made once after the verifying call searched every term of sejm_terms and
\* returned nothing; the process attached is the candidate just fetched, all
\* candidates before it in the list having failed, in the term being searched;
\* and the title-only call returns at its first successful fetch, so that no
\* earlier term or candidate of it had one.
C16_FuzzyIsFirstFetched ==
    [][/\ (pc' = "done" /\ result'.link_method = "title_fuzzy") =>
             /\ pc = "fetch" /\ pass = "fuzzy"
             /\ nSearch = Len(sejm_terms) + termIdx
             /\ \A i \in 1..Len(outcomes) : outcomes[i] = "err"
             /\ result'.sejm_process =
                    GetProcess(sejm_terms[termIdx], results[Len(outcomes) + 1].number)
             /\ result'.sejm_print = results[Len(outcomes) + 1].number
             /\ result'.sejm_term = sejm_terms[termIdx]
       /\ (/\ pc = "fetch" /\ pass = "fuzzy"
           /\ Len(outcomes') = Len(outcomes) + 1
           /\ outcomes'[Len(outcomes')] = "ok") =>
             (pc' = "done" /\ result'.link_method = "title_fuzzy")]_vars

C16_Witness ==
    /\ pc = "done"
    /\ result.link_method = "title_fuzzy"
    /\ nSearch = 4
    /\ outcomes = <<"err", "ok">>
    /\ result.sejm_term = 9

\* C17: when an RM number was extracted and the call ends without a
\* candidate (empty query, no results, every fetch failing), link_project
\* returns "not_found" with the extracted RM number, and no process, print
\* number or term.
C17_NotFoundKeepsKey ==
    (/\ pc = "done"
     /\ Truthy(extract_rm_number(rcl))
     /\ (outcomes = <<>> \/ outcomes[Len(outcomes)] = "err")) =>
        result = LinkedProject(extract_rm_number(rcl), rcl, NoneProc, "None",
                               NoneInt, "not_found")

C17_Witness ==
    /\ pc = "done"
    /\ result.link_method = "not_found"
    /\ result.rm_number = RM1
    /\ nSearch = 4
    /\ nFetch >= 2
    /\ outcomes = <<"err">>

\* C21: the verifying call searches term 10, then term 9, one search per
\* term; it moves to the older term only from a search that raised or
\* returned nothing, or from the last candidate of the list, no candidate
\* fetched before it having matched; a fetched candidate whose rclNum equals
\* the RM number ends the call at once, with the term being searched as the
\* LinkedProject's term; and once the call has returned no search_processes
\* or get_process call of it follows.
C21_SearchState ==
    (pass = "verify" /\ pc \in {"search", "fetch"}) =>
        /\ nSearch = (IF pc = "search" THEN termIdx - 1 ELSE termIdx)
        /\ (nSearch = 0 /\ pc = "search") => Term = 10
        /\ (nSearch = 1 /\ pc = "search") => Term = 9
        /\ nSearch <= 2

C21_Step ==
    /\ (pass = "verify" /\ pass' = "verify" /\ termIdx' # termIdx
        /\ pc \in {"search", "fetch"}) =>
          /\ termIdx' = termIdx + 1
          /\ \/ pc = "search"
             \/ /\ pc = "fetch" /\ Len(outcomes) + 1 = Len(results)
                /\ \A i \in 1..Len(outcomes) :
                       outcomes[i] = "ok" =>
                           ~KeyMatches(GetProcess(Term, results[i].number), rm_number)
    /\ (/\ pc = "fetch" /\ pass = "verify" /\ Candidate # NoNumber
        /\ outcomes' = Append(outcomes, "ok")
        /\ KeyMatches(GetProcess(Term, Candidate.number), rm_number)) =>
          /\ pc' = "done"
          /\ nSearch' = nSearch /\ nFetch' = nFetch + 1
          /\ result'.link_method = "rm_number"
          /\ result'.sejm_term = Term
          /\ result'.sejm_process = GetProcess(Term, Candidate.number)
    /\ pc = "done" =>
          \/ nSearch' = nSearch /\ nFetch' = nFetch /\ pc' = "done"
          \/ nSearch' = 0 /\ nFetch' = 0

C21_NewestFirstStopAtMatch == []C21_SearchState /\ [][C21_Step]_vars

\* term 10 gave a candidate that did not match, term 9 a first candidate that
\* did not match and a second one that did
C21_Witness ==
    /\ pc = "done" /\ pass = "verify"
    /\ result.link_method = "rm_number"
    /\ result.sejm_term = 9 /\ result.sejm_print = "902"
    /\ nSearch = 2 /\ nFetch = 3
    /\ outcomes = <<"ok", "ok">>

\* C28: every entry of _sejm_cache maps an RM number to a process whose
\* rclNum is that RM number; the cache changes only in the step in which the
\* verifying call finds its match, by the entry for the call's RM number, so
\* calls that end in "none", "title_fuzzy" or "not_found" leave it as it
\* was; and link_project does not change the record it was given, which is
\* the record of the LinkedProject it returns.
C28_CacheState ==
    /\ \A k \in DOMAIN sejm_cache : sejm_cache[k].rclNum = k
    /\ pc = "done" => result.rcl_project = rcl

C28_Step ==
    /\ sejm_cache' # sejm_cache =>
          /\ pc = "fetch" /\ pass = "verify"
          /\ pc' = "done" /\ result'.link_method = "rm_number"
          /\ sejm_cache' = (rm_number :> result'.sejm_process) @@ sejm_cache
    /\ pc \in {"search", "fetch"} => rcl' = rcl

C28_CacheOnlyVerified == []C28_CacheState /\ [][C28_Step]_vars

\* a call for another RM number ended in "title_fuzzy" while the cache held
\* the entry of an earlier call
C28_Witness ==
    /\ pc = "done"
    /\ result.link_method = "title_fuzzy"
    /\ result.rm_number = RM2
    /\ DOMAIN sejm_cache = {RM1}

(***************************************************************************)
(* Properties of merge_stages (checked under SpecMerge)                    *)
(***************************************************************************)
\* the key of a stage as documented: the date under whichever of the three
\* accepted formats parses (full timestamp, year-month-day, day-month-year),
\* otherwise the sentinel of the stage's origin
DocumentedKey(stage) ==
    LET d == stage.date
    IN IF d = NoneDate \/ d = <<>> THEN Sentinel(stage.source).t
       ELSE IF FromIsoFormat(d) # ParseError THEN FromIsoFormat(d).t
       ELSE IF StrptimeYMD(d) # ParseError THEN StrptimeYMD(d).t
       ELSE IF StrptimeDMY(d) # ParseError THEN StrptimeDMY(d).t
       ELSE Sentinel(stage.source).t

SortedAsDocumented(stages) ==
    \A i \in 1..(Len(stages) - 1) : DocumentedKey(stages[i]) <= DocumentedKey(stages[i + 1])

\* C8: the list merge_stages returns is sorted by the documented key.
C8_MergedSorted ==
    (mpc = "done" /\ ~merged.raised) => SortedAsDocumented(merged.value)

\* C9: merge_stages of any stage lists returns normally; for the government
\* list ["01-03-2024"] and the parliamentary list ["2024-04-01T10:00:00Z"]
\* it returns the government stage first, the parliamentary stage second.
C9_ZonedTimestampMerges ==
    mpc = "done" =>
        /\ ~merged.raised
        /\ (/\ rcl_stages = RclStages(<<DMY(1, 3, 2024)>>)
            /\ sejm_stages = SejmStages(<<TimestampZ(2024, 4, 1, 10)>>)) =>
               merged.value = rcl_stages \o sejm_stages

\* C22: a stage whose date is a valid 10-character day-month-year text is
\* ordered by that calendar date: its sort key is the date read as
\* day-month-year, and the government stages dated "15-03-2024" and
\* "01-02-2024" are returned with the February stage first.
C22_DayMonthYearOrdered ==
    mpc = "done" =>
        /\ \A i \in 1..Len(rcl_stages) :
               LET d == rcl_stages[i].date
               IN (StrLen(d) = 10 /\ StrptimeDMY(d) # ParseError) =>
                      sort_key(rcl_stages[i]) = StrptimeDMY(d)
        /\ (/\ rcl_stages = RclStages(<<DMY(15, 3, 2024), DMY(1, 2, 2024)>>)
            /\ sejm_stages = <<>>) =>
               /\ ~merged.raised
               /\ merged.value = <<rcl_stages[2], rcl_stages[1]>>

\* no accepted format parses the stage's date
Undated(stage) ==
    LET d == stage.date
    IN \/ d = NoneDate \/ d = <<>>
       \/ /\ FromIsoFormat(d) = ParseError
          /\ StrptimeYMD(d) = ParseError
          /\ StrptimeDMY(d) = ParseError

\* C23: the list merge_stages returns is a permutation of the government
\* list followed by the parliamentary list in which stages of equal sort key
\* keep the order they had in that concatenation; and when no stage of
\* either list has a parseable date, merge_stages returns the government
\* stages in input order followed by the parliamentary stages in input order.
C23_StableAndComplete ==
    LET all == rcl_stages \o sejm_stages
        n   == Len(all)
    IN (mpc = "done") =>
          /\ ~merged.raised =>
                /\ Len(merged.value) = n
                /\ \E f \in [1..n -> 1..n] :
                      /\ \A k, l \in 1..n : f[k] = f[l] => k = l
                      /\ \A k \in 1..n : merged.value[k] = all[f[k]]
                      /\ \A k, l \in 1..n :
                            (k < l /\ sort_key(merged.value[k]) = sort_key(merged.value[l]))
                                => f[k] < f[l]
          /\ (\A i \in 1..n : Undated(all[i])) =>
                (~merged.raised /\ merged.value = all)

\* a dated stage was moved in front of two undated ones, which kept their order
C23_Witness ==
    /\ mpc = "done" /\ ~merged.raised
    /\ rcl_stages = <<>>
    /\ sejm_stages = SejmStages(<<NoneDate, <<Txt(4)>>, YMD(2024, 2, 10)>>)
    /\ merged.value = <<sejm_stages[3], sejm_stages[1], sejm_stages[2]>>

(***************************************************************************)
(* Properties of determine_phase (checked under SpecPhase)                 *)
(***************************************************************************)
\* C10: a Project with a publication key (eli) or a publication date gets
\* phase Published, whatever its passed flag and its stages.
C10_PublishedWins ==
    (ppc = "updated" /\ (Truthy(project.eli) \/ Truthy(project.publication_date))) =>
        project.phase = PhasePUBLISHED

C10_Witness ==
    /\ ppc = "updated"
    /\ Truthy(project.eli)
    /\ project.passed = "False"
    /\ Len(project.stages) >= 2
    /\ project.stages[Len(project.stages)].source = "sejm"
    /\ NameHas(project.stages[Len(project.stages)].stage_name, "Senat")
    /\ project.phase = PhasePUBLISHED

Unpublished(p) == ~Truthy(p.eli) /\ ~Truthy(p.publication_date)

\* C11: a Project with passed = False, no publication key and no publication
\* date gets phase Rejected whatever its stages (also when the last
\* parliamentary stage names the Senate or the President); a Project whose
\* passed value is None never gets phase Rejected.
C11_RejectedOnlyWhenFalse ==
    (ppc = "updated" /\ Unpublished(project)) =>
        /\ project.passed = "False" => project.phase = PhaseREJECTED
        /\ project.passed = "None" => project.phase # PhaseREJECTED

C11_Witness ==
    /\ ppc = "updated"
    /\ Unpublished(project)
    /\ project.passed = "False"
    /\ Len(project.stages) >= 1
    /\ project.stages[Len(project.stages)].source = "sejm"
    /\ NameHas(project.stages[Len(project.stages)].stage_name, "Senat")
    /\ project.phase = PhaseREJECTED

\* the positions of the parliamentary stages in the Project's stage list
SejmAt(p) == {i \in 1..Len(p.stages) : p.stages[i].source = "sejm"}

\* C24: for a Project with no publication key, no publication date and
\* passed not False, the phase follows from the last parliamentary stage of
\* the stage list alone: President if its name contains "Prezydent" (also
\* when it contains "Senat" as well), else Senate if it contains "Senat",
\* else Sejm; the phase is RCL exactly when the list holds no parliamentary
\* stage; and no Project gets phase Withdrawn.
C24_LastSejmStageDecides ==
    ppc = "updated" =>
        /\ project.phase # PhaseWITHDRAWN
        /\ (Unpublished(project) /\ project.passed # "False") =>
              /\ project.phase = PhaseRCL <=> SejmAt(project) = {}
              /\ SejmAt(project) # {} =>
                    LET i    == CHOOSE k \in SejmAt(project) :
                                    \A j \in SejmAt(project) : j <= k
                        name == project.stages[i].stage_name
                    IN project.phase =
                          IF NameHas(name, "Prezydent") THEN PhasePRESIDENT
                          ELSE IF NameHas(name, "Senat") THEN PhaseSENATE
                          ELSE PhaseSEJM

\* the last parliamentary stage names both the President and the Senate and
\* is followed by a government stage
C24_Witness ==
    /\ ppc = "updated"
    /\ Unpublished(project) /\ project.passed = "None"
    /\ Len(project.stages) = 3
    /\ project.stages[1].source = "sejm"
    /\ NameHas(project.stages[1].stage_name, "Senat")
    /\ ~NameHas(project.stages[1].stage_name, "Prezydent")
    /\ project.stages[2].source = "sejm"
    /\ NameHas(project.stages[2].stage_name, "Prezydent")
    /\ NameHas(project.stages[2].stage_name, "Senat")
    /\ project.stages[3].source = "rcl"
    /\ project.phase = PhasePRESIDENT

(***************************************************************************)
(* Properties of unify (checked under SpecUnify)                           *)
(***************************************************************************)
UnifyEnded == upc \in {"done", "again", "raised"}

\* C12: for a government record without a sejm_url field, the LinkedProject
\* has method "none", and unify on it returns a Project with phase rcl, no
\* stage of parliamentary origin, no print number, and makes no auxiliary
\* lookup.
C12_UnlinkedStaysGovernment ==
    (UnifyEnded /\ linked.rcl_project.sejm_url = Missing) =>
        /\ linked.link_method = "none"
        /\ upc # "raised"
        /\ uproject.phase = PhaseRCL
        /\ get_sejm_stages(uproject) = <<>>
        /\ uproject.sejm_print = "None"
        /\ ulog = <<>>

C12_Witness ==
    /\ upc = "done"
    /\ linked.rcl_project.sejm_url = Missing
    /\ Len(uproject.stages) = 2
    /\ uproject.phase = PhaseRCL

\* the field a lookup fills is unset / empty
FieldUnset(p, lookup) ==
    CASE lookup = "voting"              -> p.voting.by_party = <<>>
      [] lookup = "committees"          -> p.committees = <<>>
      [] lookup = "rapporteurs"         -> p.rapporteurs = <<>>
      [] lookup = "senate_position"     -> p.senate_position = NoneStr
      [] lookup = "president_signature" -> p.president_signature_date = NoneStr
      [] lookup = "eli"                 -> p.publication_date = NoneStr
      [] lookup = "tribunal"            -> p.tribunal_cases = <<>>

\* C13: every auxiliary lookup of unify is guarded on its own.  Whatever
\* lookups raise, the step after a lookup is the next lookup or the return
\* of the Project, never an exception; and in the Project returned every
\* lookup of the list was made, in order, the field of each lookup that
\* raised is unset / empty and the field of each lookup that found a value
\* holds one.
C13_LookupsGuarded ==
    [][upc = "lookup" =>
          /\ upc' \in {"lookup", "done"}
          /\ Len(ulog') = Len(ulog) + 1
          /\ ulog'[Len(ulog')].lookup = Lookups(linked, uproject)[Len(ulog) + 1]
          /\ upc' = "done" =>
                /\ Len(ulog') = Len(Lookups(linked, uproject'))
                /\ \A i \in 1..Len(ulog') :
                      /\ ulog'[i].lookup = Lookups(linked, uproject')[i]
                      /\ ulog'[i].outcome = "raise" => FieldUnset(uproject', ulog'[i].lookup)
                      /\ ulog'[i].outcome = "found" => ~FieldUnset(uproject', ulog'[i].lookup)]_vars

C13_Witness ==
    /\ upc = "done"
    /\ Len(ulog) = 7
    /\ ulog[1].outcome = "raise" /\ ulog[2].outcome = "found"
    /\ ulog[3].outcome = "raise" /\ ulog[4].outcome = "found"
    /\ ulog[6].outcome = "raise" /\ ulog[7].outcome = "found"
    /\ uproject.committees # <<>> /\ uproject.tribunal_cases # <<>>
    /\ uproject.publication_date = NoneStr

\* C15: the phase of every Project unify returns is determine_phase of that
\* Project's final fields, and update_phase called again on the returned
\* Project changes nothing.
C15_PhaseIsFunctionOfFields ==
    [][/\ upc' = "done" => uproject'.phase = determine_phase(uproject')
       /\ upc' = "again" => uproject' = uproject]_vars

C15_Witness ==
    /\ upc = "again"
    /\ Len(ulog) = 5
    /\ uproject.passed = "None"
    /\ uproject.phase = PhaseSENATE

\* C30: for a linked project, every enrichment lookup of unify that goes to
\* the registry (final voting, committees, rapporteurs, senate position,
\* signature date) is issued against the generation the LinkedProject was
\* found in, and the generation on the Project unify returns is that of the
\* LinkedProject, also when the match is in the older generation.
C30_GenerationCarried ==
    (upc # "off" /\ linked.sejm_process # NoneProc) =>
        /\ \A i \in 1..Len(ulog) :
               ulog[i].lookup \in RegistryLookups => ulog[i].term = linked.sejm_term
        /\ upc \in {"done", "again"} => uproject.sejm_term = linked.sejm_term

(***************************************************************************)
(* Properties of Pipeline.run (checked under SpecRun)                      *)
(***************************************************************************)

\* C18: when the initial scrape raises inside Pipeline.run, the exception
\* leaves run (the run ends raised), the sync-log entry of that run is marked
\* failed, and no link_project, unify or upsert call has been made or is
\* made in that run: the lists stay empty and the tables stay as they were.
C18_ScrapeFailureFailsRun ==
    [][/\ (rpc = "scrape" /\ rpc' = "raised") =>
             /\ Len(sync_log') = Len(sync_log)
             /\ sync_log'[Len(sync_log')] = "failed"
             /\ \A i \in 1..(Len(sync_log) - 1) : sync_log'[i] = sync_log[i]
             /\ calls = NoCalls /\ calls' = NoCalls
             /\ linked_list' = <<>> /\ projects' = <<>> /\ saved' = 0
             /\ db' = db
       /\ rpc = "raised" => (rpc' = "scrape" /\ db' = db)]_vars

\* the second run fails in its scrape, over the rows the first run wrote
C18_Witness ==
    /\ rpc = "raised" /\ calls = NoCalls
    /\ sync_log = <<"completed", "failed">>
    /\ db.projects # <<>>

\* C14: the output order matches the input order.  The LinkedProjects built
\* so far are those of the first records, the i-th one built from the i-th
\* record alone; once link_projects has returned there is exactly one per
\* record.  Likewise the i-th Project is one that unify returns for the i-th
\* LinkedProject, and once unify_all has returned there is exactly one per
\* LinkedProject: the Project list of run has the order of the records.
C14_OrderKept ==
    /\ Len(linked_list) <= Len(rcl_projects)
    /\ \A i \in 1..Len(linked_list) :
           /\ linked_list[i].rcl_project = rcl_projects[i]
           /\ linked_list[i] \in LinkOutcomes(rcl_projects[i], RunProcesses)
                                  \cup {Skipped(rcl_projects[i])}
    /\ rpc \in {"unify", "save", "returned"} => Len(linked_list) = Len(rcl_projects)
    /\ Len(projects) <= Len(linked_list)
    /\ \A i \in 1..Len(projects) :
           /\ projects[i] \in UnifyOutcomes(linked_list[i])
           /\ projects[i].rcl_id = rcl_projects[i].project_id
    /\ rpc \in {"save", "returned"} => Len(projects) = Len(linked_list)

\* a run over two records returned, the linked record listed first
C14_Witness ==
    /\ rpc = "returned" /\ link_to_sejm
    /\ rcl_projects = <<RecordB, RecordA>>
    /\ Len(projects) = 2
    /\ linked_list[1].link_method = "title_fuzzy"
    /\ projects[1].sejm_print = "101" /\ projects[2].sejm_print = "None"

\* the method tag of a LinkedProject in the documented vocabulary: the code
\* writes the verified tier as "rm_number"
MethodTag(lp) ==
    IF lp.link_method = "rm_number" THEN "exact_verified" ELSE lp.link_method

\* C20: every LinkedProject that link_project produced, and every
\* LinkedProject the pipeline hands to unify, carries a method tag from the
\* closed set {none, exact_verified, title_fuzzy, not_found}.
C20_MethodTagClosed ==
    \A i \in 1..Len(linked_list) :
        MethodTag(linked_list[i]) \in {"none", "exact_verified", "title_fuzzy", "not_found"}

\* a table without the modification time of its rows
WithoutTime(table) ==
    [i \in 1..Len(table) |->
        [k \in (DOMAIN table[i]) \ {"last_modified"} |-> table[i][k]]]

OnePerKey(table, key) ==
    \A i, j \in 1..Len(table) :
        (\A k \in key : table[i][k] = table[j][k]) => i = j

\* C19: persisting is an idempotent upsert keyed by rcl_id.  After any number
\* of runs the projects table holds one row per rcl_id (and the child tables
\* one row per (project, stage number), per project, per (voting, party));
\* and when the save loop writes a Project equal to the one it wrote last
\* for that rcl_id, the project row and every child row are as before
\* apart from the project row's modification time.
C19_UpsertIdempotent ==
    /\ [](/\ OnePerKey(db.projects, {"rcl_id"})
          /\ OnePerKey(db.rcl_stages, {"project_id", "stage_number"})
          /\ OnePerKey(db.project_votings, {"project_id"})
          /\ OnePerKey(db.voting_by_party, {"voting_id", "party"})
          /\ OnePerKey(db.sejm_stages, {"project_id", "stage_number"}))
    /\ [][(/\ rpc = "save" /\ saved' = saved + 1
           /\ LET h == persisted[projects[saved + 1].rcl_id]
              IN h # <<>> /\ h[Len(h)] = projects[saved + 1])
          => /\ WithoutTime(db'.projects) = WithoutTime(db.projects)
             /\ db'.rcl_stages = db.rcl_stages
             /\ db'.project_votings = db.project_votings
             /\ db'.voting_by_party = db.voting_by_party
             /\ db'.sejm_stages = db.sejm_stages]_vars

\* the second run wrote the linked Project of the first run again, with its
\* stages, its voting and the party breakdown
C19_Witness ==
    /\ Len(sync_log) = 2
    /\ LET h == persisted[RecordB.project_id]
       IN /\ Len(h) = 2 /\ h[1] = h[2] /\ h[2] # NoResult
          /\ h[2].voting = EnrichedVoting
    /\ \E i \in 1..Len(db.projects) :
           /\ db.projects[i].rcl_id = RecordB.project_id
           /\ db.projects[i].last_modified = 2
    /\ db.rcl_stages # <<>> /\ db.project_votings # <<>>
    /\ db.voting_by_party # <<>> /\ db.sejm_stages # <<>>

\* C27: a government stage is stored under its native stage number: every
\* row of rcl_stages belongs to a project whose record has a stage of the
\* row's name, and the row's stage_number is that stage's stage_number.
C27_NativeStageNumberKept ==
    \A n \in 1..Len(db.rcl_stages) :
        \A i \in 1..Len(db.projects) :
            \A r \in {RecordA, RecordB} :
                (db.projects[i].id = db.rcl_stages[n].project_id
                 /\ db.projects[i].rcl_id = r.project_id) =>
                    \E k \in 1..Len(r.stages) :
                        /\ r.stages[k].stage_name = db.rcl_stages[n].stage_name
                        /\ r.stages[k].stage_number = db.rcl_stages[n].stage_number

\* the statuses that end an entry of the sync log
Terminal == {"completed", "failed"}

\* every Project of the run is the last one written under its rcl_id, and
\* there is one Project per scraped record
AllUpserted ==
    /\ Len(projects) = Len(rcl_projects)
    /\ saved = Len(projects)
    /\ \A i \in 1..Len(projects) :
           LET h == persisted[projects[i].rcl_id]
           IN /\ h # <<>> /\ h[Len(h)] = projects[i]
              /\ \E n \in 1..Len(db.projects) : db.projects[n].rcl_id = projects[i].rcl_id

C29_LogState ==
    /\ \A i \in 1..(Len(sync_log) - 1) : sync_log[i] \in Terminal
    /\ rpc \in {"scrape", "link", "unify", "save"} => sync_log[Len(sync_log)] = "running"
    /\ rpc = "returned" => sync_log[Len(sync_log)] = "completed" /\ AllUpserted
    /\ rpc = "raised" => sync_log[Len(sync_log)] = "failed"

C29_Step ==
    \A i \in 1..Len(sync_log) :
        sync_log[i] \in Terminal => Len(sync_log') >= i /\ sync_log'[i] = sync_log[i]

\* C29: every run that created a sync-log entry leaves it in exactly one
\* terminal status. While the run is under way the entry is "running"; a run
\* that returned has marked it "completed", and only with every Project of
\* the run upserted; a run in which scrape, link, unify or an upsert of the
\* project, its government stages or its voting raised has marked it "failed"
\* and re-raised; an entry that reached a terminal status never changes
\* again (so none is completed after a failure).
C29_OneTerminalStatus ==
    /\ []C29_LogState
    /\ [][C29_Step]_vars

\* a second run failed in an upsert of the save loop after the first run had
\* completed: the project row of the cut-short iteration is written, the
\* entry is failed, the first entry is still completed
C29_Witness ==
    /\ sync_log = <<"completed", "failed">>
    /\ rpc = "raised"
    /\ calls["upsert"] = 1
    /\ saved = 0 /\ Len(projects) = 2
    /\ \E id \in RclIds :
           LET h == persisted[id] IN h # <<>> /\ h[Len(h)] = NoResult

(***************************************************************************)
(* Properties of convert_sejm_stages (checked under SpecConvert)           *)
(***************************************************************************)
\* the positions of the children of a native stage that carry a voting payload
VotingAt(sejm_stage) ==
    {c \in 1..Len(sejm_stage.children) : sejm_stage.children[c].voting.present}

\* C25: convert_sejm_stages returns one Stage per native stage, in native
\* order, each of source "sejm"; its voting is None when no child carries a
\* voting payload, otherwise it is built from the last child that carries
\* one, with result "passed" exactly when yes > no and "rejected" otherwise.
C25_OneStageLastVoting ==
    cpc = "done" =>
        /\ Len(cstages) = Len(cprocess.stages)
        /\ \A i \in 1..Len(cstages) :
              LET native == cprocess.stages[i]
                  st     == cstages[i]
              IN /\ st.source = "sejm"
                 /\ st.stage_name = native.stageName
                 /\ st.date = native.date
                 /\ VotingAt(native) = {} => st.voting = NoneVoting
                 /\ VotingAt(native) # {} =>
                       LET c == CHOOSE k \in VotingAt(native) :
                                    \A j \in VotingAt(native) : j <= k
                           v == native.children[c].voting
                       IN /\ st.voting.yes = v.yes /\ st.voting.no = v.no
                          /\ st.voting.result = "passed" <=> v.yes > v.no
                          /\ st.voting.result = "rejected" <=> ~(v.yes > v.no)

\* a stage with a carried voting followed by a lost one, and a second stage
C25_Witness ==
    /\ cpc = "done"
    /\ Len(cstages) = 2
    /\ cprocess.stages[1].children = <<VotingChild(230, 200), VotingChild(200, 230)>>
    /\ cstages[1].voting = Voting(200, 230, "rejected")
    /\ cstages[2].voting = Voting(230, 200, "passed")

\* C26: the Stage that convert_sejm_stages returns for a native stage
\* carries the metadata of the stage's children: the committee code of a
\* Referral child that has one, and the rapporteur and the proposal text of
\* a CommitteeReport child that has them.
C26_ChildMetadataFlattened ==
    cpc = "done" =>
        \A i \in 1..Len(cprocess.stages) :
            \A c \in 1..Len(cprocess.stages[i].children) :
                LET child == cprocess.stages[i].children[c]
                    st    == cstages[i]
                IN /\ (child.stageType = <<"Referral">> /\ child.committeeCode # Missing) =>
                         st.committee_code = child.committeeCode
                   /\ (child.stageType = <<"CommitteeReport">>
                       /\ child.rapporteurName # Missing) =>
                         /\ {"rapporteur_name", "proposal"} \subseteq DOMAIN st
                         /\ st.rapporteur_name = child.rapporteurName
                         /\ st.proposal = child.proposal

====
